---- MODULE Spec2Model ----
(***************************************************************************)
(* Model of docs/assets/script.js: the format-preserving editing engine of *)
(* the TrendRadar configuration editor.                                    *)
(*                                                                         *)
(* Text representation.  A string is a sequence of tokens.  A token is     *)
(* either one character the code's regular expressions treat specially     *)
(* (space, '#', ':', '"', "'", '[', ']', ',', '-', '=', '>', '{', '}') or  *)
(* a run of ordinary non-blank characters ("foo", "periods", "7").  A text *)
(* is the sequence of its lines, i.e. the value of text.split('\n'); a     *)
(* text therefore always has at least one line, and the empty text is      *)
(* << <<>> >>.                                                             *)
(***************************************************************************)
EXTENDS Integers, Sequences, FiniteSets, TLC

VARIABLES
    currentFrequency,       \* let currentFrequency: the live rule text (its lines)
    currentFrequencyData,   \* let currentFrequencyData: <<>> for null, <<data>> otherwise
    freqOp,                 \* record of the last frequency handler that ran
    patchLines,             \* the `lines` array handed to replaceLineValue
    patchOp,                \* record of the last replaceLineValue call
    currentTimeline,        \* let currentTimeline: the live schedule text (its lines)
    tlOp,                   \* record of the last schedule handler that ran
    currentYaml,            \* let currentYaml: the live settings text (its lines)
    yamlOp,                 \* record of the last settings handler that ran
    loads,                  \* the confirmLoadConfig calls started so far, oldest first
    loadOp                  \* record of the last loader step that ran

freqVars == <<currentFrequency, currentFrequencyData, freqOp>>
patchVars == <<patchLines, patchOp>>
tlVars == <<currentTimeline, tlOp>>
yamlVars == <<currentYaml, yamlOp>>
loadVars == <<loads, loadOp>>

vars == <<freqVars, patchVars, tlVars, yamlVars, loadVars>>

----------------------------------------------------------------------------
(* String primitives (String.prototype.trim / startsWith / endsWith)        *)

SP == " "

\* the number of blanks that s holds from position k on, up to the first other token
RECURSIVE BlanksFrom(_, _)
BlanksFrom(s, k) == IF k > Len(s) \/ s[k] # SP THEN 0 ELSE 1 + BlanksFrom(s, k + 1)

\* line.search(/\S/) for a line holding a non-blank token; Len(s) when all blank
LeadingSpaces(s) == BlanksFrom(s, 1)

RECURSIVE BlanksBefore(_, _)
BlanksBefore(s, k) == IF k < 1 \/ s[k] # SP THEN 0 ELSE 1 + BlanksBefore(s, k - 1)

TrailingSpaces(s) == BlanksBefore(s, Len(s))

Trim(s) ==
    IF LeadingSpaces(s) = Len(s) THEN <<>>
    ELSE SubSeq(s, LeadingSpaces(s) + 1, Len(s) - TrailingSpaces(s))

StartsWith(s, tok) == s # <<>> /\ Head(s) = tok

EndsWith(s, tok) == s # <<>> /\ s[Len(s)] = tok

Includes(s, tok) == \E i \in 1..Len(s) : s[i] = tok

RECURSIVE Flatten(_)
Flatten(ss) == IF ss = <<>> THEN <<>> ELSE Head(ss) \o Flatten(Tail(ss))

\* Array.prototype.splice(at, n): removal of n elements starting at 0-based index at
RemoveAt(s, at, n) == SubSeq(s, 1, at) \o SubSeq(s, at + n + 1, Len(s))

\* Array.prototype.splice(at, 0, ...items): insertion before 0-based index at
InsertAt(s, at, items) == SubSeq(s, 1, at) \o items \o SubSeq(s, at + 1, Len(s))

----------------------------------------------------------------------------
(* Frequency rule parser                                                    *)

GLOBAL_MARK == <<"[", "GLOBAL_FILTER", "]">>
GROUPS_MARK == <<"[", "WORD_GROUPS", "]">>

\* currentGroup = null
NoGroup ==
    [type |-> "none", name |-> <<>>, keywords |-> <<>>, items |-> <<>>,
     startLine |-> 0, precedingComments |-> <<>>,
     isRelatedGroup |-> FALSE, relatedGroupIndex |-> 0, relatedGroupTotal |-> 0]

NewGroup(type, name, keywords, items, startLine, pending) ==
    [type |-> type, name |-> name, keywords |-> keywords, items |-> items,
     startLine |-> startLine, precedingComments |-> pending,
     isRelatedGroup |-> FALSE, relatedGroupIndex |-> 0, relatedGroupTotal |-> 0]

\* trimmed.match(/^\[([^\]]+)\]$/)
GroupNameMatches(t) ==
    /\ Len(t) >= 3
    /\ t[1] = "["
    /\ t[Len(t)] = "]"
    /\ \A i \in 2..(Len(t) - 1) : t[i] # "]"

GroupNameOf(t) == SubSeq(t, 2, Len(t) - 1)

\* the positions k >= 1 at which /^(.+?)\s*=>\s*(.*)$/ can end its first group:
\* after k tokens, optional blanks, then '=' '>'
AliasSplitAt(t, k) ==
    LET r == SubSeq(t, k + 1, Len(t))
        b == LeadingSpaces(r)
    IN  /\ b + 2 <= Len(r)
        /\ r[b + 1] = "="
        /\ r[b + 2] = ">"

AliasMatches(t) == \E k \in 1..Len(t) : AliasSplitAt(t, k)

\* the lazy quantifier takes the shortest first group
AliasSplit(t) == CHOOSE k \in 1..Len(t) :
    AliasSplitAt(t, k) /\ \A j \in 1..(k - 1) : ~AliasSplitAt(t, j)

AliasKeyword(t) == Trim(SubSeq(t, 1, AliasSplit(t)))

AliasValue(t) ==
    LET r == SubSeq(t, AliasSplit(t) + 1, Len(t))
    IN  Trim(SubSeq(r, LeadingSpaces(r) + 3, Len(r)))

\* a flush that moves the buffered groups over without marking them
flushRelatedGroupsUnmarked(st) ==
    [st EXCEPT !.wordGroups = @ \o st.relatedGroupsBuffer, !.relatedGroupsBuffer = <<>>]

\* a flush that marks a buffer of one group as well
flushRelatedGroupsMarkingOne(st) ==
    [st EXCEPT !.wordGroups =
                   @ \o [idx \in 1..Len(st.relatedGroupsBuffer) |->
                            [st.relatedGroupsBuffer[idx] EXCEPT
                                !.isRelatedGroup = TRUE,
                                !.relatedGroupIndex = idx - 1,
                                !.relatedGroupTotal = Len(st.relatedGroupsBuffer)]],
               !.relatedGroupsBuffer = <<>>]

flushRelatedGroups(st) ==
    IF Len(st.relatedGroupsBuffer) > 0
    THEN LET n == Len(st.relatedGroupsBuffer)
             marked == IF n > 1
                       THEN [idx \in 1..n |->
                               [st.relatedGroupsBuffer[idx] EXCEPT
                                   !.isRelatedGroup = TRUE,
                                   !.relatedGroupIndex = idx - 1,
                                   !.relatedGroupTotal = n]]
                       ELSE st.relatedGroupsBuffer
         IN  [st EXCEPT !.wordGroups = @ \o marked, !.relatedGroupsBuffer = <<>>]
    ELSE st

\* relatedGroupsBuffer.push(currentGroup) when a group is open
PushCurrent(st) ==
    IF st.currentGroup.type # "none"
    THEN [st EXCEPT !.relatedGroupsBuffer = Append(@, st.currentGroup)]
    ELSE st

\* an alias line that opens a group of its own whatever came before
StartsAliasRun(st) == FALSE

\* lastLineWasAlias && currentGroup && (type === 'alias' || type === 'alias-group')
ContinuesAliasRun(st) ==
    /\ st.lastLineWasAlias
    /\ st.currentGroup.type \in {"alias", "alias-group"}

ParseInit ==
    [currentSection |-> "null", currentGroup |-> NoGroup, lastLineWasAlias |-> FALSE,
     relatedGroupsBuffer |-> <<>>, pendingComments |-> <<>>,
     globalFilter |-> <<>>, wordGroups |-> <<>>]

\* one iteration of the for loop over lines; i is the 0-based line index
ParseLine(st, line, i) ==
    LET trimmed == Trim(line) IN
    IF StartsWith(trimmed, "#") /\ st.currentSection = "groups"
    THEN [st EXCEPT !.pendingComments = Append(@, line)]
    ELSE IF StartsWith(trimmed, "#")
    THEN st
    ELSE IF trimmed = <<>>
    THEN LET flushed == flushRelatedGroups([PushCurrent(st) EXCEPT !.currentGroup = NoGroup])
         IN  [flushed EXCEPT
                 !.lastLineWasAlias = FALSE,
                 !.pendingComments =
                     IF st.currentSection = "groups" THEN Append(@, <<>>) ELSE @]
    ELSE IF trimmed = GLOBAL_MARK
    THEN [st EXCEPT !.currentSection = "global"]
    ELSE IF trimmed = GROUPS_MARK
    THEN [st EXCEPT !.currentSection = "groups"]
    ELSE IF st.currentSection = "global"
    THEN [st EXCEPT !.globalFilter = Append(@, trimmed)]
    ELSE IF st.currentSection = "groups"
    THEN IF /\ GroupNameMatches(trimmed)
            /\ GroupNameOf(trimmed) \notin {<<"GLOBAL_FILTER">>, <<"WORD_GROUPS">>}
         THEN [flushRelatedGroups(PushCurrent(st)) EXCEPT
                  !.currentGroup = NewGroup("group-name", GroupNameOf(trimmed), <<>>, <<>>,
                                            i, st.pendingComments),
                  !.pendingComments = <<>>,
                  !.lastLineWasAlias = FALSE]
         ELSE IF AliasMatches(trimmed)
         THEN LET item == [keyword |-> AliasKeyword(trimmed), alias |-> AliasValue(trimmed)] IN
              IF ContinuesAliasRun(st)
              THEN [st EXCEPT
                       !.currentGroup.type = "alias-group",
                       !.currentGroup.items = Append(@, item),
                       !.lastLineWasAlias = TRUE]
              ELSE [PushCurrent(st) EXCEPT
                       !.currentGroup = NewGroup("alias", <<>>, <<>>, <<item>>,
                                                 i, st.pendingComments),
                       !.pendingComments = <<>>,
                       !.lastLineWasAlias = TRUE]
         ELSE LET opened ==
                      IF st.currentGroup.type \in {"none", "alias", "alias-group"}
                      THEN [PushCurrent(st) EXCEPT
                               !.currentGroup = NewGroup("plain", <<>>, <<>>, <<>>,
                                                         i, st.pendingComments),
                               !.pendingComments = <<>>]
                      ELSE st
              IN  [opened EXCEPT
                      !.currentGroup.keywords = Append(@, trimmed),
                      !.lastLineWasAlias = FALSE]
    ELSE st

RECURSIVE ParseLoop(_, _, _)
ParseLoop(st, lines, i) ==
    IF i >= Len(lines) THEN st
    ELSE ParseLoop(ParseLine(st, lines[i + 1], i), lines, i + 1)

parseFrequencyText(text) ==
    LET st == flushRelatedGroups(PushCurrent(ParseLoop(ParseInit, text, 0)))
    IN  [globalFilter |-> st.globalFilter,
         wordGroups |-> st.wordGroups,
         originalText |-> text]

----------------------------------------------------------------------------
(* Frequency rule builder                                                   *)

IsCommentOrBlank(line) == StartsWith(Trim(line), "#") \/ Trim(line) = <<>>

\* the three loop conditions of the skeleton copy: which line ends the scan
StopsScan(line, kind) ==
    IF kind = "global" THEN Trim(line) = GLOBAL_MARK
    ELSE IF kind = "groups" THEN Trim(line) = GROUPS_MARK
    ELSE ~IsCommentOrBlank(line)

\* 0-based index of the first line at or after `from` that ends the scan, else lines.length
RECURSIVE ScanTo(_, _, _)
ScanTo(lines, from, kind) ==
    IF from >= Len(lines) THEN Len(lines)
    ELSE IF StopsScan(lines[from + 1], kind) THEN from
    ELSE ScanTo(lines, from + 1, kind)

ALIAS_ARROW == <<SP, "=", ">", SP>>

\* the type-specific body lines of one group
GroupBodyLines(group) ==
    IF group.type = "group-name"
    THEN (IF group.name # <<>> THEN << <<"[">> \o group.name \o <<"]">> >> ELSE <<>>)
         \o group.keywords
    ELSE IF group.type \in {"alias", "alias-group"}
    THEN [k \in 1..Len(group.items) |->
             group.items[k].keyword \o ALIAS_ARROW \o group.items[k].alias]
    ELSE IF group.type = "plain"
    THEN group.keywords
    ELSE <<>>

\* the blank-line decision taken after the group at 1-based position index
GroupSeparator(wordGroups, index) ==
    LET group == wordGroups[index]
        isLastGroup == index = Len(wordGroups)
        bothAreRelatedGroups ==
            /\ group.isRelatedGroup
            /\ ~isLastGroup
            /\ wordGroups[index + 1].isRelatedGroup
        nextHasComments ==
            /\ ~isLastGroup
            /\ Len(wordGroups[index + 1].precedingComments) > 0
    IN  IF bothAreRelatedGroups THEN <<>>
        ELSE IF ~isLastGroup /\ ~nextHasComments THEN << <<>> >>
        ELSE IF isLastGroup THEN << <<>> >>
        ELSE <<>>

GroupLines(wordGroups, index) ==
    wordGroups[index].precedingComments
        \o GroupBodyLines(wordGroups[index])
        \o GroupSeparator(wordGroups, index)

WordGroupLines(wordGroups) ==
    Flatten([index \in 1..Len(wordGroups) |-> GroupLines(wordGroups, index)])

TEMPLATE_HEADER ==
    << <<"#", SP, "===">>, <<"#", SP, "TrendRadar">>, <<"#", SP, "===">>, <<>> >>

buildFrequencyText(data) ==
    IF data.originalText # << <<>> >>
    THEN LET lines == data.originalText
             i1 == ScanTo(lines, 0, "global")
             i2 == ScanTo(lines, i1 + 1, "content")
             i3 == ScanTo(lines, i2, "groups")
         IN  SubSeq(lines, 1, i1)
             \o <<GLOBAL_MARK>>
             \o (IF i1 + 1 < Len(lines) THEN SubSeq(lines, i1 + 2, i2) ELSE <<>>)
             \o data.globalFilter
             \o (IF i2 < Len(lines)
                 THEN SelectSeq(SubSeq(lines, i2 + 1, i3), IsCommentOrBlank)
                 ELSE <<>>)
             \o <<GROUPS_MARK>>
             \o WordGroupLines(data.wordGroups)
    ELSE TEMPLATE_HEADER
         \o <<GLOBAL_MARK>>
         \o data.globalFilter
         \o << <<>>, <<>> >>
         \o <<GROUPS_MARK, <<>> >>
         \o WordGroupLines(data.wordGroups)
         \o << <<>> >>

----------------------------------------------------------------------------
(* Frequency editor handlers                                                *)

\* const data = currentFrequencyData || parseFrequencyText(currentFrequency)
CachedOrParsed ==
    IF currentFrequencyData # <<>> THEN currentFrequencyData[1]
    ELSE parseFrequencyText(currentFrequency)

\* currentFrequency = buildFrequencyText(data);
\* currentFrequencyData = parseFrequencyText(currentFrequency)
RebuildAndReparse(data) ==
    /\ currentFrequency' = buildFrequencyText(data)
    /\ currentFrequencyData' = <<parseFrequencyText(buildFrequencyText(data))>>

\* frequencyEditor 'input' listener followed by syncFrequencyToUI()
syncFrequencyToUI ==
    /\ currentFrequencyData' = <<parseFrequencyText(currentFrequency)>>
    /\ freqOp' = [op |-> "sync", index |-> 0, before |-> <<>>, dropped |-> FALSE,
                  n |-> freqOp.n]
    /\ UNCHANGED <<currentFrequency, patchVars, tlVars, yamlVars, loadVars>>

\* group.keywords.filter(k => k !== keyword), then the splice of an emptied group
KeywordsWithout(group, keyword) ==
    SelectSeq(group.keywords, LAMBDA k : k # keyword)

GroupsAfterRemoveKeyword(wordGroups, groupIndex, keyword) ==
    IF KeywordsWithout(wordGroups[groupIndex + 1], keyword) = <<>>
    THEN RemoveAt(wordGroups, groupIndex, 1)
    ELSE [wordGroups EXCEPT
             ![groupIndex + 1].keywords = KeywordsWithout(wordGroups[groupIndex + 1], keyword)]

removeKeyword(groupIndex, keyword) ==
    LET data == CachedOrParsed
        group == data.wordGroups[groupIndex + 1]
    IN  /\ group.type \in {"group-name", "plain"}
        /\ RebuildAndReparse(
               [data EXCEPT !.wordGroups =
                   GroupsAfterRemoveKeyword(data.wordGroups, groupIndex, keyword)])
        /\ freqOp' = [op |-> "removeKeyword", index |-> groupIndex,
                      before |-> data.wordGroups,
                      dropped |-> KeywordsWithout(group, keyword) = <<>>, n |-> freqOp.n + 1]
        /\ UNCHANGED <<patchVars, tlVars, yamlVars, loadVars>>

removeWordGroup(index) ==
    LET data == CachedOrParsed
    IN  /\ RebuildAndReparse([data EXCEPT !.wordGroups = RemoveAt(data.wordGroups, index, 1)])
        /\ freqOp' = [op |-> "removeWordGroup", index |-> index,
                      before |-> data.wordGroups, dropped |-> TRUE, n |-> freqOp.n + 1]
        /\ UNCHANGED <<patchVars, tlVars, yamlVars, loadVars>>

updateGroupName(index, name) ==
    LET data == CachedOrParsed
        group == data.wordGroups[index + 1]
    IN  /\ RebuildAndReparse(
               IF group.type = "group-name"
               THEN [data EXCEPT !.wordGroups[index + 1].name = name]
               ELSE data)
        /\ freqOp' = [op |-> "updateGroupName", index |-> index,
                      before |-> data.wordGroups, dropped |-> FALSE, n |-> freqOp.n + 1]
        /\ UNCHANGED <<patchVars, tlVars, yamlVars, loadVars>>

\* currentFrequency = buildFrequencyText(data); currentFrequencyData = data
RebuildAndKeep(data) ==
    /\ currentFrequency' = buildFrequencyText(data)
    /\ currentFrequencyData' = <<data>>

FreqOpOf(op, index, before, arg) ==
    [op |-> op, index |-> index, before |-> before, dropped |-> FALSE,
     n |-> freqOp.n + 1, arg |-> arg]

\* newOrder.map(idx => data.wordGroups[idx])
Reordered(wordGroups, newOrder) ==
    [k \in 1..Len(newOrder) |-> wordGroups[newOrder[k] + 1]]

\* data.wordGroups.map((_, idx) => idx)
OldOrder(wordGroups) == [k \in 1..Len(wordGroups) |-> k - 1]

\* Sortable onEnd: newOrder is the order of the cards' data-group-index values
onEnd(newOrder) ==
    LET data == CachedOrParsed
    IN  /\ newOrder # OldOrder(data.wordGroups)
        /\ RebuildAndReparse([data EXCEPT !.wordGroups = Reordered(data.wordGroups, newOrder)])
        /\ freqOp' = FreqOpOf("onEnd", 0, data.wordGroups, newOrder)
        /\ UNCHANGED <<patchVars, tlVars, yamlVars, loadVars>>

\* Enter in the global filter input; value is event.target.value
handleGlobalFilterInput(value) ==
    LET data == CachedOrParsed
    IN  /\ Trim(value) # <<>>
        /\ RebuildAndKeep([data EXCEPT !.globalFilter = Append(@, Trim(value))])
        /\ freqOp' = FreqOpOf("handleGlobalFilterInput", 0, data.wordGroups, value)
        /\ UNCHANGED <<patchVars, tlVars, yamlVars, loadVars>>

removeGlobalFilter(filter) ==
    LET data == CachedOrParsed
    IN  /\ RebuildAndKeep([data EXCEPT
               !.globalFilter = SelectSeq(@, LAMBDA f : f # filter)])
        /\ freqOp' = FreqOpOf("removeGlobalFilter", 0, data.wordGroups, filter)
        /\ UNCHANGED <<patchVars, tlVars, yamlVars, loadVars>>

EmptyItem == [keyword |-> <<>>, alias |-> <<>>]

\* the object literal confirmAddWordGroup creates for each type of the modal
AddedGroup(type) ==
    IF type = "group" THEN NewGroup("group-name", <<>>, <<>>, <<>>, 0, <<>>)
    ELSE IF type = "alias" THEN NewGroup("alias", <<>>, <<>>, <<EmptyItem>>, 0, <<>>)
    ELSE IF type = "multi-alias"
    THEN NewGroup("alias-group", <<>>, <<>>, <<EmptyItem, EmptyItem>>, 0, <<>>)
    ELSE NewGroup("plain", <<>>, <<>>, <<>>, 0, <<>>)

\* position is pendingWordGroupPosition: 'top', 'bottom' or a 0-based index
\* (kind "number", the index in at)
GroupsWithAdded(wordGroups, position, newGroup) ==
    IF position.kind = "bottom" THEN Append(wordGroups, newGroup)
    ELSE IF position.kind = "top" THEN <<newGroup>> \o wordGroups
    ELSE InsertAt(wordGroups, position.at, <<newGroup>>)

confirmAddWordGroup(type, position) ==
    LET data == CachedOrParsed
    IN  /\ RebuildAndKeep([data EXCEPT
               !.wordGroups = GroupsWithAdded(@, position, AddedGroup(type))])
        /\ freqOp' = FreqOpOf("confirmAddWordGroup", 0, data.wordGroups, type)
        /\ UNCHANGED <<patchVars, tlVars, yamlVars, loadVars>>

\* group.keywords.indexOf(originalKeyword), 1-based; 0 when absent
RECURSIVE IndexOfFrom(_, _, _)
IndexOfFrom(s, x, k) ==
    IF k > Len(s) THEN 0 ELSE IF s[k] = x THEN k ELSE IndexOfFrom(s, x, k + 1)

\* saveEdit of editKeyword: inputValue is what the inline input holds on blur or Enter
editKeyword(groupIndex, oldKeyword, inputValue) ==
    LET data == CachedOrParsed
        group == data.wordGroups[groupIndex + 1]
        kwIndex == IndexOfFrom(group.keywords, oldKeyword, 1)
    IN  /\ group.type \in {"group-name", "plain"}
        /\ Trim(inputValue) # <<>>
        /\ Trim(inputValue) # oldKeyword
        /\ RebuildAndReparse(
               IF kwIndex # 0
               THEN [data EXCEPT !.wordGroups[groupIndex + 1].keywords[kwIndex] =
                                     Trim(inputValue)]
               ELSE data)
        /\ freqOp' = FreqOpOf("editKeyword", groupIndex, data.wordGroups, inputValue)
        /\ UNCHANGED <<patchVars, tlVars, yamlVars, loadVars>>

handleKeywordInput(value, groupIndex) ==
    LET data == CachedOrParsed
        group == data.wordGroups[groupIndex + 1]
    IN  /\ Trim(value) # <<>>
        /\ group.type \in {"group-name", "plain"}
        /\ RebuildAndReparse(
               [data EXCEPT !.wordGroups[groupIndex + 1].keywords = Append(@, Trim(value))])
        /\ freqOp' = FreqOpOf("handleKeywordInput", groupIndex, data.wordGroups, value)
        /\ UNCHANGED <<patchVars, tlVars, yamlVars, loadVars>>

\* field is "keyword" or "alias"
updateAliasItem(groupIndex, itemIndex, field, value) ==
    LET data == CachedOrParsed
        group == data.wordGroups[groupIndex + 1]
    IN  /\ group.type \in {"alias", "alias-group"}
        /\ itemIndex < Len(group.items)
        /\ RebuildAndReparse(
               [data EXCEPT !.wordGroups[groupIndex + 1].items[itemIndex + 1][field] = value])
        /\ freqOp' = FreqOpOf("updateAliasItem", groupIndex, data.wordGroups, value)
        /\ UNCHANGED <<patchVars, tlVars, yamlVars, loadVars>>

addAliasItem(groupIndex) ==
    LET data == CachedOrParsed
        group == data.wordGroups[groupIndex + 1]
    IN  /\ group.type \in {"alias", "alias-group"}
        /\ RebuildAndReparse(
               [data EXCEPT !.wordGroups[groupIndex + 1].type = "alias-group",
                            !.wordGroups[groupIndex + 1].items = Append(@, EmptyItem)])
        /\ freqOp' = FreqOpOf("addAliasItem", groupIndex, data.wordGroups, <<>>)
        /\ UNCHANGED <<patchVars, tlVars, yamlVars, loadVars>>

\* group.items.splice(itemIndex, 1), then removal of an emptied group or the
\* downgrade of a one-item group to type alias
GroupsAfterRemoveAliasItem(wordGroups, groupIndex, itemIndex) ==
    LET items == RemoveAt(wordGroups[groupIndex + 1].items, itemIndex, 1)
    IN  IF Len(items) = 0 THEN RemoveAt(wordGroups, groupIndex, 1)
        ELSE [wordGroups EXCEPT
                 ![groupIndex + 1].items = items,
                 ![groupIndex + 1].type = IF Len(items) = 1 THEN "alias" ELSE @]

removeAliasItem(groupIndex, itemIndex) ==
    LET data == CachedOrParsed
        group == data.wordGroups[groupIndex + 1]
    IN  /\ group.type = "alias-group"
        /\ RebuildAndReparse([data EXCEPT
               !.wordGroups = GroupsAfterRemoveAliasItem(@, groupIndex, itemIndex)])
        /\ freqOp' = FreqOpOf("removeAliasItem", groupIndex, data.wordGroups, <<>>)
        /\ UNCHANGED <<patchVars, tlVars, yamlVars, loadVars>>

----------------------------------------------------------------------------
(* Rule texts the editor is loaded with                                     *)

MaxBody == 3

\* number of panel edits followed from one loaded text
MaxFreqEdits == 2

FreqBodyLines ==
    { <<>>,
      <<"#", SP, "c1">>,
      <<"[", "A", "]">>,
      <<"foo">>,
      <<SP, "bar", SP>>,
      <<"a", SP, "=", ">", SP, "b">>,
      <<"c", "=", ">", "d">>,
      <<"e", SP, "=", ">">> }

FreqBodies == UNION {[1..n -> FreqBodyLines] : n \in 0..MaxBody}

\* both section markers, in the order of the shipped frequency_words.txt
FullHeader == <<GLOBAL_MARK, <<"spam">>, <<>>, GROUPS_MARK>>

\* a rule file that has word groups only
GroupsOnlyHeader == <<GROUPS_MARK>>

GroupNameInputs == { <<"B">>, <<>> }

\* the editors a specification does not exercise hold these texts throughout
FreqIdle ==
    /\ currentFrequency = << <<>> >>
    /\ currentFrequencyData = <<>>
    /\ freqOp = [op |-> "load", index |-> 0, before |-> <<>>, dropped |-> FALSE, n |-> 0]

PatchIdle ==
    /\ patchLines = << <<>> >>
    /\ patchOp = [op |-> "load", idx |-> 0, value |-> <<>>, before |-> <<>>, n |-> 0,
                  original |-> << <<>> >>, same |-> TRUE]

TlIdle ==
    /\ currentTimeline = << <<>> >>
    /\ tlOp = [op |-> "load"]

YamlIdle ==
    /\ currentYaml = << <<>> >>
    /\ yamlOp = [op |-> "load"]

LoadIdle ==
    /\ loads = <<>>
    /\ loadOp = [op |-> "none", drops |-> 0]

FreqInitWith(headers) ==
    /\ currentFrequency \in {h \o b : h \in headers, b \in FreqBodies}
    /\ currentFrequencyData = <<>>
    /\ freqOp = [op |-> "load", index |-> 0, before |-> <<>>, dropped |-> FALSE, n |-> 0]
    /\ PatchIdle /\ TlIdle /\ YamlIdle /\ LoadIdle

FreqInit == FreqInitWith({FullHeader, GroupsOnlyHeader})

FreqInitMarked == FreqInitWith({FullHeader})

RemoveKeywordStep ==
    /\ freqOp.n < MaxFreqEdits
    /\ \E groupIndex \in 0..(Len(CachedOrParsed.wordGroups) - 1) :
          \E k \in 1..Len(CachedOrParsed.wordGroups[groupIndex + 1].keywords) :
              removeKeyword(groupIndex, CachedOrParsed.wordGroups[groupIndex + 1].keywords[k])

RemoveWordGroupStep ==
    /\ freqOp.n < MaxFreqEdits
    /\ \E index \in 0..(Len(CachedOrParsed.wordGroups) - 1) : removeWordGroup(index)

UpdateGroupNameStep ==
    /\ freqOp.n < MaxFreqEdits
    /\ \E index \in 0..(Len(CachedOrParsed.wordGroups) - 1) :
          \E name \in GroupNameInputs : updateGroupName(index, name)

FreqNext ==
    \/ syncFrequencyToUI
    \/ RemoveKeywordStep
    \/ RemoveWordGroupStep
    \/ UpdateGroupNameStep

\* rule texts with or without the [GLOBAL_FILTER] marker
SpecFreq == FreqInit /\ [][FreqNext]_vars

\* rule texts that carry both markers
SpecFreqMarked == FreqInitMarked /\ [][FreqNext]_vars

\* the lines the rule texts of the panel specification are made of
PanelBodyLines ==
    { <<>>,
      <<"#", SP, "c1">>,
      <<"[", "A", "]">>,
      <<"foo">>,
      <<"a", SP, "=", ">", SP, "b">> }

PanelBodies == UNION {[1..n -> PanelBodyLines] : n \in 0..MaxBody}

PanelInit ==
    /\ currentFrequency \in {FullHeader \o b : b \in PanelBodies}
    /\ currentFrequencyData = <<>>
    /\ freqOp = [op |-> "load", index |-> 0, before |-> <<>>, dropped |-> FALSE, n |-> 0]
    /\ PatchIdle /\ TlIdle /\ YamlIdle /\ LoadIdle

\* what the user types into an input of the panel
PanelInputs == { <<"baz">>, <<"#", "x">> }

\* the orders the cards of n groups can be dropped in
Orders(n) == {p \in [1..n -> 0..(n - 1)] : \A i, j \in 1..n : i # j => p[i] # p[j]}

\* addWordGroup('top'), addWordGroup('bottom') and insertWordGroupAt(index)
Positions(n) ==
    {[kind |-> "top", at |-> 0], [kind |-> "bottom", at |-> 0]}
        \cup {[kind |-> "number", at |-> i] : i \in 0..n}

GroupIndexes == 0..(Len(CachedOrParsed.wordGroups) - 1)

OnEndStep ==
    /\ freqOp.n < MaxFreqEdits
    /\ \E newOrder \in Orders(Len(CachedOrParsed.wordGroups)) : onEnd(newOrder)

HandleGlobalFilterInputStep ==
    /\ freqOp.n < MaxFreqEdits
    /\ \E value \in PanelInputs : handleGlobalFilterInput(value)

RemoveGlobalFilterStep ==
    /\ freqOp.n < MaxFreqEdits
    /\ \E k \in 1..Len(CachedOrParsed.globalFilter) :
          removeGlobalFilter(CachedOrParsed.globalFilter[k])

ConfirmAddWordGroupStep ==
    /\ freqOp.n < MaxFreqEdits
    /\ \E type \in {"group", "alias", "multi-alias", "plain"} :
          \E position \in Positions(Len(CachedOrParsed.wordGroups)) :
              confirmAddWordGroup(type, position)

EditKeywordStep ==
    /\ freqOp.n < MaxFreqEdits
    /\ \E groupIndex \in GroupIndexes :
          \E k \in 1..Len(CachedOrParsed.wordGroups[groupIndex + 1].keywords) :
              \E inputValue \in PanelInputs :
                  editKeyword(groupIndex,
                              CachedOrParsed.wordGroups[groupIndex + 1].keywords[k], inputValue)

HandleKeywordInputStep ==
    /\ freqOp.n < MaxFreqEdits
    /\ \E groupIndex \in GroupIndexes :
          \E value \in PanelInputs : handleKeywordInput(value, groupIndex)

UpdateAliasItemStep ==
    /\ freqOp.n < MaxFreqEdits
    /\ \E groupIndex \in GroupIndexes :
          \E itemIndex \in 0..(Len(CachedOrParsed.wordGroups[groupIndex + 1].items) - 1) :
              \E field \in {"keyword", "alias"} :
                  updateAliasItem(groupIndex, itemIndex, field, <<"baz">>)

AddAliasItemStep ==
    /\ freqOp.n < MaxFreqEdits
    /\ \E groupIndex \in GroupIndexes : addAliasItem(groupIndex)

RemoveAliasItemStep ==
    /\ freqOp.n < MaxFreqEdits
    /\ \E groupIndex \in GroupIndexes :
          \E itemIndex \in 0..(Len(CachedOrParsed.wordGroups[groupIndex + 1].items) - 1) :
              removeAliasItem(groupIndex, itemIndex)

PanelNext ==
    \/ syncFrequencyToUI
    \/ OnEndStep
    \/ HandleGlobalFilterInputStep
    \/ RemoveGlobalFilterStep
    \/ ConfirmAddWordGroupStep
    \/ EditKeywordStep
    \/ HandleKeywordInputStep
    \/ UpdateAliasItemStep
    \/ AddAliasItemStep
    \/ RemoveAliasItemStep
    \/ RemoveKeywordStep
    \/ RemoveWordGroupStep
    \/ UpdateGroupNameStep

\* every handler of the rule panel, on rule texts that carry both markers
SpecPanel == PanelInit /\ [][PanelNext]_vars

ParseNext == syncFrequencyToUI

\* the editor's input listener alone: every loaded rule text is parsed
SpecParse == FreqInit /\ [][ParseNext]_vars

----------------------------------------------------------------------------
(* Properties of the frequency rule parser and builder                      *)

\* the structure two group lists are compared on: type, name, keywords,
\* alias items and the related-group flag of each group, in order
GroupShape(g) ==
    [type |-> g.type, name |-> g.name, keywords |-> g.keywords,
     items |-> g.items, isRelatedGroup |-> g.isRelatedGroup]

SameGroupList(gs, hs) ==
    /\ Len(gs) = Len(hs)
    /\ \A i \in 1..Len(gs) : GroupShape(gs[i]) = GroupShape(hs[i])

\* C1: for every rule text T, parsing the text built from parse(T) gives the
\* same word-group list as parse(T): same number and order of groups, each
\* with the same type, name, keywords, alias items and isRelatedGroup flag.
C1_RoundTripLaw ==
    LET parsed == parseFrequencyText(currentFrequency)
    IN  SameGroupList(parseFrequencyText(buildFrequencyText(parsed)).wordGroups,
                      parsed.wordGroups)

\* the comment lines (not the blank lines) a group owns
CommentLinesOf(g) == SelectSeq(g.precedingComments, LAMBDA l : l # <<>>)

\* what C10 compares a surviving group on
GroupContent(g) ==
    [type |-> g.type, name |-> g.name, keywords |-> g.keywords,
     items |-> g.items, comments |-> CommentLinesOf(g)]

\* the non-blank lines that follow the first [WORD_GROUPS] line of a text
GroupsSectionLines(text) ==
    LET at == ScanTo(text, 0, "groups")
    IN  SelectSeq(SubSeq(text, at + 2, Len(text)), LAMBDA l : Trim(l) # <<>>)

\* C10: after removeKeyword has removed the only remaining keyword of a plain
\* or group-name group, the group is gone: the rebuilt text holds exactly the
\* comment and body lines of the other groups (so neither the removed group's
\* lines nor its preceding comments), and the other groups are found again,
\* in the same order, with their type, contents and preceding comments.
C10_RemoveLastKeywordDeletesGroup ==
    (freqOp.op = "removeKeyword" /\ freqOp.dropped) =>
        LET others == RemoveAt(freqOp.before, freqOp.index, 1)
            after == parseFrequencyText(currentFrequency).wordGroups
        IN  /\ GroupsSectionLines(currentFrequency) =
                   Flatten([i \in 1..Len(others) |->
                               CommentLinesOf(others[i]) \o GroupBodyLines(others[i])])
            /\ Len(after) = Len(others)
            /\ \A i \in 1..Len(others) : GroupContent(after[i]) = GroupContent(others[i])

\* what a reorder must keep of each group
GroupCore(g) == [type |-> g.type, name |-> g.name, keywords |-> g.keywords, items |-> g.items]

GroupCores(gs) == [i \in 1..Len(gs) |-> GroupCore(gs[i])]

\* C11: after the cards were dropped in a new order, parsing the live text
\* gives exactly the groups the panel showed before, in the new order: same
\* count, types, names, keywords and alias items; none merged, split or lost.
C11_ReorderOnlyPermutes ==
    freqOp.op = "onEnd" =>
        GroupCores(parseFrequencyText(currentFrequency).wordGroups)
            = GroupCores(Reordered(freqOp.before, freqOp.arg))

\* 0-based index of the last [WORD_GROUPS] line among the first k lines, -1 if none
RECURSIVE LastGroupsMarkIn(_, _)
LastGroupsMarkIn(text, k) ==
    IF k = 0 THEN -1
    ELSE IF Trim(text[k]) = GROUPS_MARK THEN k - 1
    ELSE LastGroupsMarkIn(text, k - 1)

\* the lines that follow the last [WORD_GROUPS] line of a text
GroupsSection(text) ==
    IF LastGroupsMarkIn(text, Len(text)) < 0 THEN <<>>
    ELSE SubSeq(text, LastGroupsMarkIn(text, Len(text)) + 2, Len(text))

RECURSIVE DropLeadingBlank(_)
DropLeadingBlank(ls) ==
    IF ls # <<>> /\ Trim(Head(ls)) = <<>> THEN DropLeadingBlank(Tail(ls)) ELSE ls

RECURSIVE DropTrailingBlank(_)
DropTrailingBlank(ls) ==
    IF ls # <<>> /\ Trim(ls[Len(ls)]) = <<>>
    THEN DropTrailingBlank(SubSeq(ls, 1, Len(ls) - 1))
    ELSE ls

\* the groups section without the blank lines at its two ends
GroupsSectionCore(text) == DropTrailingBlank(DropLeadingBlank(GroupsSection(text)))

\* a line that is neither blank, nor a comment, nor a bracketed header
IsKeywordLine(l) ==
    /\ Trim(l) # <<>>
    /\ ~StartsWith(Trim(l), "#")
    /\ ~GroupNameMatches(Trim(l))

IsAliasLine(l) == IsKeywordLine(l) /\ AliasMatches(Trim(l))

Synced == freqOp.op = "sync" /\ currentFrequencyData # <<>>

\* the groups section is two keyword lines with nothing between them
TwoAdjacentKeywordLines(text) ==
    /\ Len(GroupsSectionCore(text)) = 2
    /\ IsKeywordLine(GroupsSectionCore(text)[1])
    /\ IsKeywordLine(GroupsSectionCore(text)[2])

AliasBesidePlain(text) ==
    /\ TwoAdjacentKeywordLines(text)
    /\ IsAliasLine(GroupsSectionCore(text)[1]) # IsAliasLine(GroupsSectionCore(text)[2])

\* two groups, both flagged as one related run of two, and written back on
\* two adjacent lines
RelatedPair(data) ==
    /\ Len(data.wordGroups) = 2
    /\ \A i \in 1..2 :
          /\ data.wordGroups[i].isRelatedGroup
          /\ data.wordGroups[i].relatedGroupTotal = 2
          /\ data.wordGroups[i].relatedGroupIndex = i - 1
    /\ Len(GroupsSectionCore(buildFrequencyText(data))) = 2

\* C12 as stated: a groups section made of two single-keyword groups written
\* on adjacent lines parses to two groups, both flagged isRelatedGroup with
\* relatedGroupTotal 2 and relatedGroupIndex 0 and 1, and is built back with
\* no blank line between them.
C12_AdjacentGroupsAreRelatedPair ==
    (Synced /\ TwoAdjacentKeywordLines(currentFrequency)) => RelatedPair(currentFrequencyData[1])

\* C12, amended: the same holds when one of the two adjacent lines is a
\* 'keyword => alias' line and the other a plain keyword line (either order).
C12_AliasBesidePlainIsRelatedPair ==
    (Synced /\ AliasBesidePlain(currentFrequency)) => RelatedPair(currentFrequencyData[1])

C12_Witness ==
    /\ Synced
    /\ AliasBesidePlain(currentFrequency)
    /\ currentFrequencyData[1].wordGroups[1].type = "plain"
    /\ currentFrequencyData[1].wordGroups[2].isRelatedGroup

\* the item an alias line stands for: the text before the first '=>' and the
\* text after it, both trimmed
ItemsOfLines(ls) ==
    [k \in 1..Len(ls) |->
        [keyword |-> AliasKeyword(Trim(ls[k])), alias |-> AliasValue(Trim(ls[k]))]]

AliasTypeFor(n) == IF n = 1 THEN "alias" ELSE "alias-group"

\* lines i..j of the section are a maximal run of alias lines
AliasRun(sec, i, j) ==
    /\ \A k \in i..j : IsAliasLine(sec[k])
    /\ i = 1 \/ ~IsAliasLine(sec[i - 1])
    /\ j = Len(sec) \/ ~IsAliasLine(sec[j + 1])

OnlyAliasLines(sec) == sec # <<>> /\ \A k \in 1..Len(sec) : IsAliasLine(sec[k])

NoCommentLine(sec) == \A k \in 1..Len(sec) : ~StartsWith(Trim(sec[k]), "#")

IsCommentLine(l) == StartsWith(Trim(l), "#")

OwnedBySomeGroup(l, groups) ==
    \E g \in 1..Len(groups) :
        \E k \in 1..Len(groups[g].precedingComments) : groups[g].precedingComments[k] = l

LineOf(text, l) == \E k \in 1..Len(text) : text[k] = l

\* C14: every comment line that follows the [WORD_GROUPS] marker is held,
\* verbatim, in the precedingComments of some parsed group, and is found,
\* verbatim, in the text built from the parse.
C14_NoCommentDiscarded ==
    Synced =>
        \A k \in 1..Len(GroupsSection(currentFrequency)) :
            IsCommentLine(GroupsSection(currentFrequency)[k]) =>
                /\ OwnedBySomeGroup(GroupsSection(currentFrequency)[k],
                                    currentFrequencyData[1].wordGroups)
                /\ LineOf(buildFrequencyText(currentFrequencyData[1]),
                          GroupsSection(currentFrequency)[k])

\* h brings a blank line of its own in front of its first line
LeadsWithBlank(h) == h.precedingComments # <<>> /\ Trim(Head(h.precedingComments)) = <<>>

\* the separator C15 describes between the group at position i and the next
\* one; after the last group the builder writes one blank line
ClaimedSeparator(groups, i) ==
    IF i = Len(groups) THEN << <<>> >>
    ELSE IF groups[i].isRelatedGroup /\ groups[i + 1].isRelatedGroup THEN <<>>
    ELSE IF LeadsWithBlank(groups[i + 1]) THEN <<>>
    ELSE << <<>> >>

ClaimedGroupLines(groups) ==
    Flatten([i \in 1..Len(groups) |->
                groups[i].precedingComments \o GroupBodyLines(groups[i])
                    \o ClaimedSeparator(groups, i)])

\* C15: in the built text two consecutive groups that are both flagged
\* isRelatedGroup follow each other without a separator; any other two are
\* separated by one blank line, unless the second one's precedingComments
\* begin with a blank line of their own.
C15_SeparatorRule ==
    Synced =>
        GroupsSection(buildFrequencyText(currentFrequencyData[1]))
            = ClaimedGroupLines(currentFrequencyData[1].wordGroups)

\* a handler of the rule panel has committed a new text
PanelCommitted == freqOp.op \notin {"load", "sync"}

\* C16: after every mutation of the rule text committed by a panel handler,
\* the cached parse is null or agrees with the parse of the live text: the
\* same global filter list and the same word groups (type, name, keywords
\* and alias items, in order).
C16_CacheMatchesLiveText ==
    (PanelCommitted /\ currentFrequencyData # <<>>) =>
        /\ currentFrequencyData[1].globalFilter
               = parseFrequencyText(currentFrequency).globalFilter
        /\ GroupCores(currentFrequencyData[1].wordGroups)
               = GroupCores(parseFrequencyText(currentFrequency).wordGroups)

----------------------------------------------------------------------------
(* Scalar patcher: replaceLineValue                                         *)

\* a value handed to the patcher: typeof value is boolean, string or number
BoolValue(b) == [t |-> "boolean", b |-> b, s |-> <<>>, n |-> 0]
StrValue(s) == [t |-> "string", b |-> FALSE, s |-> s, n |-> 0]
NumValue(n) == [t |-> "number", b |-> FALSE, s |-> <<>>, n |-> n]

DigitToken(d) == <<"0", "1", "2", "3", "4", "5", "6", "7", "8", "9">>[d + 1]

\* String(value) for a non-negative integer
RECURSIVE NumberToString(_)
NumberToString(n) ==
    IF n < 10 THEN <<DigitToken(n)>>
    ELSE NumberToString(n \div 10) \o <<DigitToken(n % 10)>>

\* the position after the run of non-blank tokens that starts at position k
RECURSIVE RunEnd(_, _)
RunEnd(line, k) == IF k > Len(line) \/ line[k] = SP THEN k ELSE RunEnd(line, k + 1)

\* the last ':' strictly inside from..to, 0 without one
RECURSIVE LastColonIn(_, _, _)
LastColonIn(line, from, to) ==
    IF to <= from THEN 0
    ELSE IF line[to] = ":" THEN to
    ELSE LastColonIn(line, from, to - 1)

\* the last ':' of the run of non-blank tokens at position run that has a token
\* of the run in front of it, 0 without one
LastColonOfRun(line, run) == LastColonIn(line, run, RunEnd(line, run) - 1)

\* original.match(/^(\s*\S+:\s*)(.*)$/): the end of group 1 before the blanks that
\* follow the colon, i.e. the last ':' of the first run of non-blank tokens that
\* has a non-blank token in front of it; 0 when the line does not match
KeyColonAt(line) == LastColonOfRun(line, LeadingSpaces(line) + 1)

\* match[1]
KeyPrefix(line) == SubSeq(line, 1, KeyColonAt(line) + BlanksFrom(line, KeyColonAt(line) + 1))

\* match[2]
RestOfLine(line) == SubSeq(line, Len(KeyPrefix(line)) + 1, Len(line))

\* rest.match(/(\s*#.*)$/): from the blanks in front of the first '#' to the end
CommentOf(rest) ==
    IF ~Includes(rest, "#") THEN <<>>
    ELSE LET h == CHOOSE i \in 1..Len(rest) :
                      rest[i] = "#" /\ \A j \in 1..(i - 1) : rest[j] # "#"
         IN  SubSeq(rest, h - TrailingSpaces(SubSeq(rest, 1, h - 1)), Len(rest))

\* rest.slice(0, rest.length - comment.length).trim()
ValPartOf(rest) == Trim(SubSeq(rest, 1, Len(rest) - Len(CommentOf(rest))))

IsQuotedText(valPart) ==
    \/ StartsWith(valPart, "\"") /\ EndsWith(valPart, "\"")
    \/ StartsWith(valPart, "'") /\ EndsWith(valPart, "'")

DoubleQuoted(s) == <<"\"">> \o s \o <<"\"">>

\* the `formatted` text of replaceLineValue
FormatReplacement(rest, value) ==
    IF value.t = "boolean" THEN (IF value.b THEN <<"true">> ELSE <<"false">>)
    ELSE IF value.t = "string"
    THEN IF \/ IsQuotedText(ValPartOf(rest))
            \/ Includes(value.s, ":")
            \/ Includes(value.s, "#")
            \/ Includes(value.s, SP)
         THEN DoubleQuoted(value.s)
         ELSE value.s
    ELSE NumberToString(value.n)

\* the new text of lines[idx]
ReplacedLine(line, value) ==
    IF KeyColonAt(line) = 0 THEN line
    ELSE KeyPrefix(line)
         \o FormatReplacement(RestOfLine(line), value)
         \o CommentOf(RestOfLine(line))

\* a slip that writes the patched line one slot further down
replaceLineValueNextSlot(lines, idx, value) ==
    IF idx + 2 <= Len(lines)
    THEN [lines EXCEPT ![idx + 2] = ReplacedLine(lines[idx + 1], value)]
    ELSE Append(lines, ReplacedLine(lines[idx + 1], value))

\* replaceLineValue(lines, idx, value); idx is 0-based
replaceLineValue(lines, idx, value) ==
    [lines EXCEPT ![idx + 1] = ReplacedLine(lines[idx + 1], value)]

----------------------------------------------------------------------------
(* Lines and values the patcher is exercised on                             *)

KeyPrefixes == { <<"key", ":", SP>>, <<SP, SP, "name", ":", SP>> }

OldValues ==
    { <<>>,
      <<"5">>,
      <<"Alice">>,
      <<"\"", "Alice", "\"">>,
      <<"'", "Alice", "'">>,
      <<"\"", "a", "#", "b", "\"">> }

OldComments == { <<>>, <<SP, SP, "#", SP, "keep", SP, "me">> }

ScalarLines == {p \o v \o c : p \in KeyPrefixes, v \in OldValues, c \in OldComments}

\* neighbours of the patched line
LinesBefore == { << <<"#", SP, "header">> >>, << <<"a", ":", SP, "1">> >> }
LinesAfter == { << <<SP, SP, "b", ":", SP, "2", SP, "#", SP, "c">> >> }

\* the patched line alone, or between two neighbours
PatchDocs ==
    {<<l>> : l \in ScalarLines}
    \cup {b \o << <<"key", ":", SP, "5", SP, SP, "#", SP, "keep", SP, "me">> >> \o a :
              b \in LinesBefore, a \in LinesAfter}

PatchValues ==
    { BoolValue(TRUE), BoolValue(FALSE), NumValue(7),
      StrValue(<<"Bob">>), StrValue(<<"A", ":", "B">>), StrValue(<<>>),
      StrValue(<<"x", "#", "y">>), StrValue(<<"a", SP, "b">>),
      StrValue(<<"say", "\"", "hi", "\"">>) }

\* number of successive replaceLineValue calls explored
MaxEdits == 2

PatchInit ==
    /\ patchLines \in PatchDocs
    /\ patchOp = [op |-> "load", idx |-> 0, value |-> BoolValue(FALSE),
                  before |-> <<>>, n |-> 0, original |-> patchLines, same |-> TRUE]
    /\ FreqIdle /\ TlIdle /\ YamlIdle /\ LoadIdle

ReplaceLineValueStep ==
    \E idx \in 0..(Len(patchLines) - 1) : \E value \in PatchValues :
        /\ patchOp.n < MaxEdits
        /\ patchLines' = replaceLineValue(patchLines, idx, value)
        /\ patchOp' = [op |-> "replaceLineValue", idx |-> idx, value |-> value,
                       before |-> patchLines, n |-> patchOp.n + 1,
                       original |-> patchOp.original,
                       same |-> patchOp.same /\ (patchOp.n = 0 \/ patchOp.idx = idx)]
        /\ UNCHANGED <<freqVars, tlVars, yamlVars, loadVars>>

PatchNext == ReplaceLineValueStep

SpecPatch == PatchInit /\ [][PatchNext]_vars

----------------------------------------------------------------------------
(* Properties of replaceLineValue                                           *)

\* How a reader of the document splits the text after the key prefix into the
\* scalar and its trailing comment: a scalar that opens with a quote runs to
\* the closing quote; a plain scalar runs to the first '#' that starts the
\* text or follows a blank.  The blanks in front of '#' belong to the comment.
ScalarLength(rest) ==
    IF rest # <<>> /\ rest[1] \in {"\"", "'"} /\ \E c \in 2..Len(rest) : rest[c] = rest[1]
    THEN CHOOSE c \in 2..Len(rest) :
             rest[c] = rest[1] /\ \A j \in 2..(c - 1) : rest[j] # rest[1]
    ELSE LET marks == {i \in 1..Len(rest) : rest[i] = "#" /\ (i = 1 \/ rest[i - 1] = SP)}
             cut == IF marks = {} THEN Len(rest)
                    ELSE (CHOOSE i \in marks : \A k \in marks : i <= k) - 1
         IN  cut - TrailingSpaces(SubSeq(rest, 1, cut))

ScalarOf(line) == SubSeq(RestOfLine(line), 1, ScalarLength(RestOfLine(line)))

TrailingCommentOf(line) ==
    LET rest == RestOfLine(line)
        tail == SubSeq(rest, ScalarLength(rest) + 1, Len(rest))
    IN  IF StartsWith(Trim(tail), "#") THEN tail ELSE <<>>

ScalarIsQuoted(line) ==
    LET v == ScalarOf(line)
    IN  Len(v) >= 2 /\ v[1] \in {"\"", "'"} /\ v[Len(v)] = v[1]

\* the ways a value may be written: bare, or between double quotes for a string
Renderings(value) ==
    IF value.t = "boolean" THEN {IF value.b THEN <<"true">> ELSE <<"false">>}
    ELSE IF value.t = "number" THEN {NumberToString(value.n)}
    ELSE {value.s, DoubleQuoted(value.s)}

BeginsWith(s, p) == Len(s) >= Len(p) /\ SubSeq(s, 1, Len(p)) = p

PatchedBefore == patchOp.before[patchOp.idx + 1]
PatchedAfter == patchLines[patchOp.idx + 1]
Patched == patchOp.op = "replaceLineValue"

\* C2: replaceLineValue(lines, idx, value) keeps the number of lines and every
\* line at an index other than idx, whatever the type of the value.
C2_OnlyTargetLineChanges ==
    Patched =>
        /\ Len(patchLines) = Len(patchOp.before)
        /\ \A j \in 1..Len(patchLines) :
               j # patchOp.idx + 1 => patchLines[j] = patchOp.before[j]

\* a call on a line with neighbours on both sides that rewrote the line
C2_Witness ==
    /\ Patched
    /\ Len(patchLines) = 3
    /\ patchOp.idx = 1
    /\ PatchedAfter # PatchedBefore

\* C3: on a line 'key: <old value><blanks># comment' the call keeps the key
\* prefix and the trailing comment, blanks included, and puts the new value,
\* bare or double-quoted, between them.
C3_TrailingCommentKept ==
    (/\ Patched
     /\ KeyColonAt(PatchedBefore) # 0
     /\ ScalarOf(PatchedBefore) # <<>>
     /\ TrailingCommentOf(PatchedBefore) # <<>>) =>
        PatchedAfter \in
            {KeyPrefix(PatchedBefore) \o r \o TrailingCommentOf(PatchedBefore) :
                 r \in Renderings(patchOp.value)}

\* the new string stands in double quotes right after the key prefix
WrittenInDoubleQuotes ==
    BeginsWith(PatchedAfter,
               KeyPrefix(PatchedBefore) \o DoubleQuoted(patchOp.value.s))

\* C4: a new string value is written in double quotes when the previous value
\* was quoted, and when the previous value was unquoted and the new string
\* holds a colon.
C4_QuotingIsContagious ==
    (/\ Patched
     /\ KeyColonAt(PatchedBefore) # 0
     /\ patchOp.value.t = "string"
     /\ \/ ScalarIsQuoted(PatchedBefore)
        \/ Includes(patchOp.value.s, ":")) =>
        WrittenInDoubleQuotes

\* the new string needs quoting, or the old value was quoted
QuotingCalledFor ==
    \/ ScalarIsQuoted(PatchedBefore)
    \/ Includes(patchOp.value.s, ":")
    \/ Includes(patchOp.value.s, "#")
    \/ Includes(patchOp.value.s, "\"")
    \/ Includes(patchOp.value.s, SP)
    \/ patchOp.value.s = <<>>

\* C5: a string is written in double quotes exactly when the previous value
\* was quoted or the string holds a colon, a hash, a quote or a blank or is
\* empty; booleans are written as bare true/false, numbers as bare tokens.
C5_QuotedExactlyWhenNeeded ==
    (Patched /\ KeyColonAt(PatchedBefore) # 0) =>
        IF patchOp.value.t = "string"
        THEN WrittenInDoubleQuotes <=> QuotingCalledFor
        ELSE \E r \in Renderings(patchOp.value) :
                 BeginsWith(PatchedAfter, KeyPrefix(PatchedBefore) \o r)

----------------------------------------------------------------------------
(* Indentation tree navigator                                               *)

\* line.trim() === '' || line.trim().startsWith('#')
IsBlankOrComment(line) ==
    LeadingSpaces(line) = Len(line) \/ line[LeadingSpaces(line) + 1] = "#"

\* line.search(/\S/) of a line that is not blank
IndentOf(line) == LeadingSpaces(line)

\* m[1] of line.match(/^\s*(\S+):\s*/), <<>> when the line does not match (the
\* keys that are looked for are never empty)
KeyTokenOf(line) == SubSeq(line, LeadingSpaces(line) + 1, KeyColonAt(line) - 1)

\* the loop of findChildKey from 0-based index i
RECURSIVE FindChildKeyFrom(_, _, _, _, _)
FindChildKeyFrom(lines, i, end, parentIndent, key) ==
    IF i >= end THEN -1
    ELSE IF IsBlankOrComment(lines[i + 1])
    THEN FindChildKeyFrom(lines, i + 1, end, parentIndent, key)
    ELSE IF IndentOf(lines[i + 1]) <= parentIndent THEN -1
    ELSE IF KeyTokenOf(lines[i + 1]) = key /\ IndentOf(lines[i + 1]) = parentIndent + 2
    THEN i
    ELSE FindChildKeyFrom(lines, i + 1, end, parentIndent, key)

\* a search that takes the parent's own column for the children's
findChildKeyAtParentColumn(lines, start, end, parentIndent, key) ==
    FindChildKeyFrom(lines, start + 1, end, parentIndent - 2, key)

findChildKey(lines, start, end, parentIndent, key) ==
    FindChildKeyFrom(lines, start + 1, end, parentIndent, key)

RECURSIVE FindBlockEndFrom(_, _, _, _)
FindBlockEndFrom(lines, i, indent, maxEnd) ==
    IF i >= maxEnd THEN maxEnd
    ELSE IF IsBlankOrComment(lines[i + 1])
    THEN FindBlockEndFrom(lines, i + 1, indent, maxEnd)
    ELSE IF IndentOf(lines[i + 1]) <= indent THEN i
    ELSE FindBlockEndFrom(lines, i + 1, indent, maxEnd)

\* a block that a line in the block's own column does not end
findBlockEndBelowColumn(lines, start, indent, maxEnd) ==
    FindBlockEndFrom(lines, start + 1, indent - 1, maxEnd)

findBlockEnd(lines, start, indent, maxEnd) ==
    FindBlockEndFrom(lines, start + 1, indent, maxEnd)

\* /^custom:\s*/.test(line) and /^presets:\s*/.test(line)
StartsWithKey(line, word) == Len(line) >= 2 /\ line[1] = word /\ line[2] = ":"

\* first line matching /^custom:\s*/, -1 when there is none
RECURSIVE FindCustomFrom(_, _)
FindCustomFrom(lines, i) ==
    IF i >= Len(lines) THEN -1
    ELSE IF StartsWithKey(lines[i + 1], "custom") THEN i
    ELSE FindCustomFrom(lines, i + 1)

\* line.match(/^(\s+)(\S+):\s*/) with m[2] === presetName
IsIndentedKey(line, presetName) ==
    LeadingSpaces(line) >= 1 /\ KeyTokenOf(line) = presetName

\* the scan for presetName below 'presets:'; it stops at the first line that
\* starts with a character other than a blank or '#'
RECURSIVE FindUnderPresetsFrom(_, _, _, _)
FindUnderPresetsFrom(lines, i, inPresets, presetName) ==
    IF i >= Len(lines) THEN -1
    ELSE LET line == lines[i + 1] IN
         IF StartsWithKey(line, "presets")
         THEN FindUnderPresetsFrom(lines, i + 1, TRUE, presetName)
         ELSE IF inPresets /\ line # <<>> /\ line[1] # SP /\ line[1] # "#"
         THEN -1
         ELSE IF inPresets /\ IsIndentedKey(line, presetName)
         THEN i
         ELSE FindUnderPresetsFrom(lines, i + 1, inPresets, presetName)

CUSTOM == <<"custom">>

\* the start line both updateTimelineField and findPresetSection compute
SectionStart(lines, presetName) ==
    IF presetName = CUSTOM THEN FindCustomFrom(lines, 0)
    ELSE FindUnderPresetsFrom(lines, 0, FALSE, presetName)

\* a section that always runs to the last line
SectionToLastLine(lines, start, indent) ==
    [found |-> TRUE, start |-> start, end |-> Len(lines), indent |-> indent]

\* the section that starts on line start with its key at column indent
SectionFrom(lines, start, indent) ==
    [found |-> TRUE, start |-> start,
     end |-> FindBlockEndFrom(lines, start + 1, indent, Len(lines)),
     indent |-> indent]

\* the section on line start, start < 0 when the scan found nothing
SectionAt(lines, start, isCustom) ==
    IF start < 0 THEN [found |-> FALSE, start |-> -1, end |-> -1, indent |-> 0]
    ELSE SectionFrom(lines, start, IF isCustom THEN 0 ELSE LeadingSpaces(lines[start + 1]))

\* findPresetSection: found = FALSE stands for null
findPresetSection(lines, presetName) ==
    SectionAt(lines, SectionStart(lines, presetName), presetName = CUSTOM)

\* the line as the document was loaded with it
PatchedOriginal == patchOp.original[patchOp.idx + 1]

\* C26: after any sequence of calls on the same line (of a document whose value
\* on that line held no '#'), the line is the original key prefix, the last
\* value written, bare or double-quoted, and the original trailing comment: no
\* fragment of an earlier written value remains.
C26_NoFragmentOfEarlierValue ==
    (/\ Patched
     /\ patchOp.same
     /\ KeyColonAt(PatchedOriginal) # 0
     /\ ~Includes(ScalarOf(PatchedOriginal), "#")) =>
        PatchedAfter \in
            {KeyPrefix(PatchedOriginal) \o r \o TrailingCommentOf(PatchedOriginal) :
                 r \in Renderings(patchOp.value)}

----------------------------------------------------------------------------
(* Scalar patcher: insertTimelineField and updateTimelineField              *)

Spaces(n) == SubSeq(<<SP, SP, SP, SP, SP, SP, SP, SP, SP, SP, SP, SP, SP, SP, SP, SP>>, 1, n)

\* the `formatted` text of insertTimelineField
FormatInsertion(value) ==
    IF value.t = "boolean" THEN (IF value.b THEN <<"true">> ELSE <<"false">>)
    ELSE IF value.t = "string"
    THEN (IF Includes(value.s, ":") THEN DoubleQuoted(value.s) ELSE value.s)
    ELSE NumberToString(value.n)

\* `${indent}${key}: ${formatted}`
FieldLine(indent, key, formatted) == Spaces(indent) \o key \o <<":", SP>> \o formatted

\* the child line spliced in at the end of the parent block on line parentLine
InsertUnderParent(lines, parentLine, parentIndent, targetEnd, value, fieldParts) ==
    InsertAt(lines, findBlockEnd(lines, parentLine, parentIndent, targetEnd),
             <<FieldLine(parentIndent + 2, fieldParts[2], FormatInsertion(value))>>)

\* the else branch of insertTimelineField, parentLine being what findChildKey gave
InsertNested(lines, targetEnd, targetIndent, value, fieldParts, parentLine) ==
    IF parentLine >= 0
    THEN InsertUnderParent(lines, parentLine, IndentOf(lines[parentLine + 1]), targetEnd,
                           value, fieldParts)
    ELSE InsertAt(lines, targetEnd,
                  << Spaces(targetIndent + 2) \o fieldParts[1] \o <<":">>,
                     FieldLine(targetIndent + 4, fieldParts[2], FormatInsertion(value)) >>)

\* a variant that writes over the last line of the block instead of splicing
insertTimelineFieldOverLast(lines, targetStart, targetEnd, targetIndent, value, fieldParts) ==
    [lines EXCEPT ![targetEnd] =
        FieldLine(targetIndent + 2, fieldParts[Len(fieldParts)], FormatInsertion(value))]

insertTimelineField(lines, targetStart, targetEnd, targetIndent, value, fieldParts) ==
    IF Len(fieldParts) = 1
    THEN InsertAt(lines, targetEnd,
                  <<FieldLine(targetIndent + 2, fieldParts[1], FormatInsertion(value))>>)
    ELSE InsertNested(lines, targetEnd, targetIndent, value, fieldParts,
                      findChildKey(lines, targetStart, targetEnd, targetIndent, fieldParts[1]))

DEFAULT_KEY == <<"default">>
PERIODS_KEY == <<"periods">>
DAY_PLANS_KEY == <<"day_plans">>

\* the child `key` of the block on line parentLine, whose indentation is
\* parentIndent and whose end is searched for up to maxEnd
ChildWithin(lines, parentLine, parentIndent, maxEnd, key) ==
    findChildKey(lines, parentLine, findBlockEnd(lines, parentLine, parentIndent, maxEnd),
                 parentIndent, key)

\* the child `key` of the block on line parentLine, -1 when parentLine is -1
GrandChild(lines, parentLine, maxEnd, key) ==
    IF parentLine < 0 THEN -1
    ELSE ChildWithin(lines, parentLine, IndentOf(lines[parentLine + 1]), maxEnd, key)

Floor(found, fallback) == IF found < 0 THEN fallback ELSE found

\* a variant that falls back to the section's own line when the block is missing
TargetStartOrSection(lines, sec, periodKey) ==
    Floor(IF periodKey = DEFAULT_KEY
          THEN findChildKey(lines, sec.start, sec.end, sec.indent, DEFAULT_KEY)
          ELSE GrandChild(lines, findChildKey(lines, sec.start, sec.end, sec.indent, PERIODS_KEY),
                          sec.end, periodKey),
          sec.start)

\* step 3 of updateTimelineField: the line of the period (or default) block,
\* -1 when the periods child or the block is missing
TargetStart(lines, sec, periodKey) ==
    IF periodKey = DEFAULT_KEY
    THEN findChildKey(lines, sec.start, sec.end, sec.indent, DEFAULT_KEY)
    ELSE GrandChild(lines, findChildKey(lines, sec.start, sec.end, sec.indent, PERIODS_KEY),
                    sec.end, periodKey)

\* a lookup that stops one line short of the end of the block
FieldLineIndexShort(lines, targetStart, targetEnd, targetIndent, fieldParts) ==
    IF Len(fieldParts) = 1
    THEN findChildKey(lines, targetStart, targetEnd - 1, targetIndent, fieldParts[1])
    ELSE GrandChild(lines,
                    findChildKey(lines, targetStart, targetEnd - 1, targetIndent,
                                 fieldParts[1]),
                    targetEnd - 1, fieldParts[2])

\* step 4: the line of the field inside the block, -1 when it is missing
FieldLineIndex(lines, targetStart, targetEnd, targetIndent, fieldParts) ==
    IF Len(fieldParts) = 1
    THEN findChildKey(lines, targetStart, targetEnd, targetIndent, fieldParts[1])
    ELSE GrandChild(lines,
                    findChildKey(lines, targetStart, targetEnd, targetIndent, fieldParts[1]),
                    targetEnd, fieldParts[2])

\* lines 4351-4357: insert the field or replace its value
InsertOrReplace(lines, targetStart, targetEnd, targetIndent, fieldParts, value, lineIdx) ==
    IF lineIdx < 0
    THEN [did |-> "insert",
          lines |-> insertTimelineField(lines, targetStart, targetEnd, targetIndent, value,
                                        fieldParts)]
    ELSE [did |-> "replace", lines |-> replaceLineValue(lines, lineIdx, value)]

\* step 4 on the block that spans targetStart..targetEnd
UpdateInBlock(lines, targetStart, targetEnd, targetIndent, fieldParts, value) ==
    InsertOrReplace(lines, targetStart, targetEnd, targetIndent, fieldParts, value,
                    FieldLineIndex(lines, targetStart, targetEnd, targetIndent, fieldParts))

\* lines 4331-4334: give up without a block, else find where the block ends
UpdateAtTarget(lines, sectionEnd, targetStart, targetIndent, fieldParts, value) ==
    UpdateInBlock(lines, targetStart,
                  findBlockEnd(lines, targetStart, targetIndent, sectionEnd),
                  targetIndent, fieldParts, value)

UpdateFromTarget(lines, sectionEnd, targetStart, fieldParts, value) ==
    IF targetStart < 0 THEN [did |-> "return", lines |-> lines]
    ELSE UpdateAtTarget(lines, sectionEnd, targetStart, IndentOf(lines[targetStart + 1]),
                        fieldParts, value)

\* lines 4301-4329: give up without a section, else look for the block
UpdateInSection(lines, sec, periodKey, fieldParts, value) ==
    IF ~sec.found THEN [did |-> "return", lines |-> lines]
    ELSE UpdateFromTarget(lines, sec.end, TargetStart(lines, sec, periodKey), fieldParts, value)

\* the outcome of updateTimelineField: what it did and the lines it leaves
updateTimelineField(lines, presetName, periodKey, fieldParts, value) ==
    UpdateInSection(lines, findPresetSection(lines, presetName), periodKey, fieldParts, value)

----------------------------------------------------------------------------
(* What jsyaml.load makes of a schedule document, for the block mappings,   *)
(* inline lists and block lists these documents are written with            *)

QUOTES == {"\"", "'"}

Least(S) == CHOOSE x \in S : \A y \in S : x <= y

LeastOr(S, none) == IF S = {} THEN none ELSE Least(S)

\* the indentation of every line, -1 for blank and comment lines
RECURSIVE IndentsFrom(_, _)
IndentsFrom(lines, k) ==
    IF k > Len(lines) THEN <<>>
    ELSE <<IF IsBlankOrComment(lines[k]) THEN -1 ELSE IndentOf(lines[k])>>
             \o IndentsFrom(lines, k + 1)

Indents(lines) == IndentsFrom(lines, 1)

\* the end of the block opened by line i: the next content line that is not deeper
SpanEndIn(ind, i) ==
    LeastOr({j \in (i + 1)..(Len(ind) - 1) : ind[j + 1] >= 0 /\ ind[j + 1] <= ind[i + 1]},
            Len(ind))

SpanEnd(lines, i) == SpanEndIn(Indents(lines), i)

\* the 0-based indices of the content lines of the block opened by line i
BlockLinesIn(ind, i, end) == {j \in (i + 1)..(end - 1) : ind[j + 1] >= 0}

ChildLinesAt(ind, block, indent) == {j \in block : ind[j + 1] = indent}

\* the direct children among the lines of a block: those at the indentation of the first
ChildLinesOf(ind, block) ==
    IF block = {} THEN {} ELSE ChildLinesAt(ind, block, ind[Least(block) + 1])

\* the direct children of line i, none when i is -1
ChildLinesIn(ind, i) ==
    IF i < 0 THEN {} ELSE ChildLinesOf(ind, BlockLinesIn(ind, i, SpanEndIn(ind, i)))

\* the line of the mapping entry `key` directly under line i, -1 without one
ChildEntryIn(lines, ind, i, key) ==
    LeastOr({j \in ChildLinesIn(ind, i) : KeyTokenOf(lines[j + 1]) = key}, -1)

\* the line of the top-level mapping entry `key`, -1 without one
TopEntryIn(lines, ind, key) ==
    LeastOr({j \in 0..(Len(lines) - 1) : ind[j + 1] = 0 /\ KeyTokenOf(lines[j + 1]) = key}, -1)

getPresetConfigIn(lines, ind, presetName) ==
    IF presetName = CUSTOM THEN TopEntryIn(lines, ind, CUSTOM)
    ELSE ChildEntryIn(lines, ind, TopEntryIn(lines, ind, <<"presets">>), presetName)

\* getPresetConfig on the loaded document: the line of the preset, -1 for null
getPresetConfig(lines, presetName) == getPresetConfigIn(lines, Indents(lines), presetName)

\* a scalar as YAML reads it: trailing ' #...' comment and surrounding quotes dropped
RECURSIVE CommentStart(_, _)
CommentStart(s, k) ==
    IF k > Len(s) THEN Len(s) + 1
    ELSE IF s[k] = "#" /\ (k = 1 \/ s[k - 1] = SP) THEN k
    ELSE CommentStart(s, k + 1)

Unquoted(s) ==
    IF Len(s) >= 2 /\ s[1] \in QUOTES /\ s[Len(s)] = s[1]
    THEN SubSeq(s, 2, Len(s) - 1) ELSE s

ScalarRead(s) == Unquoted(Trim(SubSeq(s, 1, CommentStart(s, 1) - 1)))

\* position of the first token equal to c at or after k, 0 without one
RECURSIVE FirstAt(_, _, _)
FirstAt(s, c, k) ==
    IF k > Len(s) THEN 0 ELSE IF s[k] = c THEN k ELSE FirstAt(s, c, k + 1)

\* s.split(sep), the next separator being at position at (0 when there is none)
RECURSIVE SplitFrom(_, _, _)
SplitFrom(s, sep, at) ==
    IF at = 0 THEN <<s>>
    ELSE <<SubSeq(s, 1, at - 1)>>
             \o SplitFrom(SubSeq(s, at + 1, Len(s)), sep,
                          FirstAt(SubSeq(s, at + 1, Len(s)), sep, 1))

SplitOn(s, sep) == SplitFrom(s, sep, FirstAt(s, sep, 1))

ItemsRead(parts) == {ScalarRead(parts[k]) : k \in 1..Len(parts)} \ {<<>>}

\* the items of an inline sequence '[a, b]' that starts the text rest
InlineRead(rest) == ItemsRead(SplitOn(SubSeq(rest, 2, FirstAt(rest, "]", 2) - 1), ","))

\* the items of the sequence value of line i, rest being the text after its key
ListItemsOf(lines, ind, i, rest) ==
    IF rest # <<>> /\ rest[1] = "[" THEN InlineRead(rest)
    ELSE {ScalarRead(Tail(Trim(lines[j + 1]))) :
             j \in {c \in ChildLinesIn(ind, i) : lines[c + 1][ind[c + 1] + 1] = "-"}}

\* the items of the sequence value of the mapping entry on line i, none when i is -1
ListReadIn(lines, ind, i) ==
    IF i < 0 THEN {} ELSE ListItemsOf(lines, ind, i, Trim(RestOfLine(lines[i + 1])))

KeysOfChildren(lines, ind, i) == {KeyTokenOf(lines[j + 1]) : j \in ChildLinesIn(ind, i)}

PeriodKeysReadIn(lines, ind, presetName) ==
    KeysOfChildren(lines, ind,
                   ChildEntryIn(lines, ind, getPresetConfigIn(lines, ind, presetName),
                                PERIODS_KEY))

\* the keys of config.periods
PeriodKeysRead(lines, presetName) == PeriodKeysReadIn(lines, Indents(lines), presetName)

\* the lines of the day plans of the preset
DayPlanLinesIn(lines, ind, presetName) ==
    ChildLinesIn(ind, ChildEntryIn(lines, ind, getPresetConfigIn(lines, ind, presetName),
                                   DAY_PLANS_KEY))

\* plan.periods || [] of the day plan on line j
PlanPeriodsReadIn(lines, ind, j) ==
    ListReadIn(lines, ind, ChildEntryIn(lines, ind, j, PERIODS_KEY))

PeriodRefsIn(lines, ind, presetName, periodKey) ==
    {j \in DayPlanLinesIn(lines, ind, presetName) :
        periodKey \in PlanPeriodsReadIn(lines, ind, j)}

\* refs of deleteTlPeriod, as the lines of the referring day plans
PeriodRefs(lines, presetName, periodKey) ==
    PeriodRefsIn(lines, Indents(lines), presetName, periodKey)

----------------------------------------------------------------------------
(* Section CRUD: deleteTlPeriod and removePeriodFromDayPlans                *)

BareRun(r) == IF Includes(r, SP) THEN <<>> ELSE r

ItemAfterDash(t) == IF t = <<>> \/ t[1] # "-" THEN <<>> ELSE BareRun(Trim(Tail(t)))

\* line.match(/^(\s*)-\s*(\S+)\s*$/): m[2], <<>> when the line does not match
ListItemOf(line) == ItemAfterDash(Trim(line))

BracketAt(line, open) ==
    IF open <= Len(line) /\ line[open] = "[" /\ FirstAt(line, "]", open + 1) # 0
    THEN open ELSE 0

InlineOpenAfter(line, lead) ==
    IF Len(line) >= lead + 2 /\ line[lead + 1] = "periods" /\ line[lead + 2] = ":"
    THEN BracketAt(line, lead + 3 + BlanksFrom(line, lead + 3))
    ELSE 0

\* line.match(/^(\s*periods:\s*)\[([^\]]*)\]/): the position of '[', 0 without a match
InlineOpenAt(line) == InlineOpenAfter(line, LeadingSpaces(line))

\* s.replace(/^["']|["']$/g, '')
StripTrailingQuote(a) ==
    IF a # <<>> /\ a[Len(a)] \in QUOTES THEN SubSeq(a, 1, Len(a) - 1) ELSE a

StripQuoteMarks(s) == StripTrailingQuote(IF s # <<>> /\ s[1] \in QUOTES THEN Tail(s) ELSE s)

\* items.join(', ')
RECURSIVE JoinItems(_)
JoinItems(items) ==
    IF items = <<>> THEN <<>>
    ELSE IF Len(items) = 1 THEN items[1]
    ELSE items[1] \o <<",", SP>> \o JoinItems(Tail(items))

\* .map(s => s.trim())
RECURSIVE TrimAll(_)
TrimAll(parts) == IF parts = <<>> THEN <<>> ELSE <<Trim(Head(parts))>> \o TrimAll(Tail(parts))

\* the filter of removePeriodFromDayPlans
KeptItems(items, periodKey) ==
    SelectSeq(items, LAMBDA x : StripQuoteMarks(x) \notin {<<>>, periodKey})

InlineRewrite(line, open, close, periodKey) ==
    SubSeq(line, 1, open - 1)
        \o <<"[">>
        \o JoinItems(KeptItems(TrimAll(SplitOn(SubSeq(line, open + 1, close - 1), ",")),
                               periodKey))
        \o <<"]">>

InlineRewriteAt(line, open, periodKey) ==
    IF open = 0 THEN line
    ELSE InlineRewrite(line, open, FirstAt(line, "]", open + 1), periodKey)

\* an inline list line rewritten without periodKey; any other line as it is
InlineWithout(line, periodKey) == InlineRewriteAt(line, InlineOpenAt(line), periodKey)

\* the loop of removePeriodFromDayPlans from index i; dpEnd is computed once,
\* before any line is removed, and reading lines[i] past the end throws
RECURSIVE RemoveRefsFrom(_, _, _, _)
RemoveRefsFrom(lines, i, dpEnd, periodKey) ==
    IF i >= dpEnd THEN [lines |-> lines, threw |-> FALSE]
    ELSE IF i >= Len(lines) THEN [lines |-> lines, threw |-> TRUE]
    ELSE IF IsBlankOrComment(lines[i + 1])
    THEN RemoveRefsFrom(lines, i + 1, dpEnd, periodKey)
    ELSE IF ListItemOf(lines[i + 1]) = periodKey
    THEN RemoveRefsFrom(RemoveAt(lines, i, 1), i, dpEnd, periodKey)
    ELSE RemoveRefsFrom([lines EXCEPT ![i + 1] = InlineWithout(lines[i + 1], periodKey)],
                        i + 1, dpEnd, periodKey)

SweepDayPlans(lines, sectionInfo, periodKey, dayPlansLine) ==
    IF dayPlansLine < 0 THEN [lines |-> lines, threw |-> FALSE]
    ELSE RemoveRefsFrom(lines, dayPlansLine + 1,
                        findBlockEnd(lines, dayPlansLine, IndentOf(lines[dayPlansLine + 1]),
                                     findBlockEnd(lines, sectionInfo.start, sectionInfo.indent,
                                                  Len(lines))),
                        periodKey)

removePeriodFromDayPlans(lines, sectionInfo, periodKey) ==
    SweepDayPlans(lines, sectionInfo, periodKey,
                  findChildKey(lines, sectionInfo.start, sectionInfo.end, sectionInfo.indent,
                               DAY_PLANS_KEY))

\* lines 4832-4836: the block on periodLine spliced out
CutBlockAt(lines, periodLine, periodsEnd) ==
    IF periodLine < 0 THEN lines
    ELSE RemoveAt(lines, periodLine,
                  findBlockEnd(lines, periodLine, IndentOf(lines[periodLine + 1]), periodsEnd)
                      - periodLine)

CutPeriodWithin(lines, periodsLine, periodsIndent, periodsEnd, periodKey) ==
    CutBlockAt(lines, findChildKey(lines, periodsLine, periodsEnd, periodsIndent, periodKey),
               periodsEnd)

CutPeriodIn(lines, periodsLine, periodsIndent, sectionEnd, periodKey) ==
    CutPeriodWithin(lines, periodsLine, periodsIndent,
                    findBlockEnd(lines, periodsLine, periodsIndent, sectionEnd), periodKey)

CutPeriodUnder(lines, periodsLine, sectionEnd, periodKey) ==
    IF periodsLine < 0 THEN lines
    ELSE CutPeriodIn(lines, periodsLine, IndentOf(lines[periodsLine + 1]), sectionEnd,
                     periodKey)

\* lines 4827-4837 of deleteTlPeriod: the period's block cut out of the periods block
WithoutPeriodBlock(lines, sectionInfo, periodKey) ==
    CutPeriodUnder(lines,
                   findChildKey(lines, sectionInfo.start, sectionInfo.end, sectionInfo.indent,
                                PERIODS_KEY),
                   sectionInfo.end, periodKey)

\* lines 4844-4845: the editor takes the new lines unless the sweep threw
Committed(lines, swept) ==
    IF swept.threw THEN [did |-> "throw", lines |-> lines]
    ELSE [did |-> "delete", lines |-> swept.lines]

\* lines 4839-4842 on the lines left by the cut
SweepIn(lines, cut, updatedSection, periodKey) ==
    IF ~updatedSection.found THEN [did |-> "delete", lines |-> cut]
    ELSE Committed(lines, removePeriodFromDayPlans(cut, updatedSection, periodKey))

SweepAfterCut(lines, cut, presetName, periodKey, referenced) ==
    IF ~referenced THEN [did |-> "delete", lines |-> cut]
    ELSE SweepIn(lines, cut, findPresetSection(cut, presetName), periodKey)

\* lines 4824-4842
DeleteInSection(lines, sectionInfo, presetName, periodKey, referenced) ==
    IF ~sectionInfo.found THEN [did |-> "return", lines |-> lines]
    ELSE SweepAfterCut(lines, WithoutPeriodBlock(lines, sectionInfo, periodKey), presetName,
                       periodKey, referenced)

\* the outcome of deleteTlPeriod: what it did and the lines it leaves in the editor
deleteTlPeriod(lines, presetName, periodKey, confirmed) ==
    IF getPresetConfig(lines, presetName) < 0 THEN [did |-> "return", lines |-> lines]
    ELSE IF ~confirmed THEN [did |-> "cancel", lines |-> lines]
    ELSE DeleteInSection(lines, findPresetSection(lines, presetName), presetName, periodKey,
                         PeriodRefs(lines, presetName, periodKey) # {})

----------------------------------------------------------------------------
(* Section CRUD: duplicateTlPeriod                                          *)

\* the text appended to the copy's name on line 4892
COPY_SUFFIX == <<SP, "(copy)">>

\* key + text, the text joining the key's last token
WithText(key, text) == SubSeq(key, 1, Len(key) - 1) \o <<key[Len(key)] \o text>>

\* the tokens of a non-empty sequence joined into one token
RECURSIVE JoinText(_)
JoinText(ts) == IF Len(ts) = 1 THEN ts[1] ELSE ts[1] \o JoinText(Tail(ts))

\* periodKey + '_copy' for the first try, periodKey + '_copy' + i from i = 2 on
CopyKeyAt(periodKey, i) ==
    IF i = 1 THEN WithText(periodKey, "_copy")
    ELSE WithText(periodKey, "_copy" \o JoinText(NumberToString(i)))

\* the loop of line 4861 over the keys config.periods already has
RECURSIVE FreeCopyKey(_, _, _)
FreeCopyKey(periodKey, taken, i) ==
    IF CopyKeyAt(periodKey, i) \notin taken THEN CopyKeyAt(periodKey, i)
    ELSE FreeCopyKey(periodKey, taken, i + 1)

\* whether the mapping entry on line j reads as a value that is not null
HasValueIn(lines, ind, j) ==
    ScalarRead(RestOfLine(lines[j + 1])) # <<>> \/ BlockLinesIn(ind, j, SpanEndIn(ind, j)) # {}

\* the keys k for which config.periods[k] is truthy
TruthyPeriodKeysUnder(lines, ind, periodsLine) ==
    {KeyTokenOf(lines[j + 1]) : j \in {c \in ChildLinesIn(ind, periodsLine) : HasValueIn(lines, ind, c)}}

TruthyPeriodKeysIn(lines, ind, presetName) ==
    TruthyPeriodKeysUnder(lines, ind,
                          ChildEntryIn(lines, ind, getPresetConfigIn(lines, ind, presetName),
                                       PERIODS_KEY))

TruthyPeriodKeys(lines, presetName) == TruthyPeriodKeysIn(lines, Indents(lines), presetName)

NameReadAt(lines, nameLine, periodKey) ==
    IF nameLine < 0 \/ ScalarRead(RestOfLine(lines[nameLine + 1])) = <<>> THEN periodKey
    ELSE ScalarRead(RestOfLine(lines[nameLine + 1]))

\* src.name || periodKey
SourceNameIn(lines, ind, presetName, periodKey) ==
    NameReadAt(lines,
               ChildEntryIn(lines, ind,
                            ChildEntryIn(lines, ind,
                                         ChildEntryIn(lines, ind,
                                                      getPresetConfigIn(lines, ind, presetName),
                                                      PERIODS_KEY),
                                         periodKey),
                            <<"name">>),
               periodKey)

SourceName(lines, presetName, periodKey) ==
    SourceNameIn(lines, Indents(lines), presetName, periodKey)

\* position of the first occurrence of old in line at or after k, 0 without one
RECURSIVE OccurrenceFrom(_, _, _)
OccurrenceFrom(line, old, k) ==
    IF k + Len(old) - 1 > Len(line) THEN 0
    ELSE IF SubSeq(line, k, k + Len(old) - 1) = old THEN k
    ELSE OccurrenceFrom(line, old, k + 1)

ReplaceAtPos(line, at, n, new) ==
    IF at = 0 THEN line ELSE SubSeq(line, 1, at - 1) \o new \o SubSeq(line, at + n, Len(line))

\* line.replace(old, new): the first occurrence replaced
ReplaceFirst(line, old, new) == ReplaceAtPos(line, OccurrenceFrom(line, old, 1), Len(old), new)

\* the loop of lines 4881-4888
CopiedLines(lines, srcLine, srcEnd, periodKey, newKey) ==
    <<ReplaceFirst(lines[srcLine + 1], periodKey, newKey)>> \o SubSeq(lines, srcLine + 2, srcEnd)

NameMatchAfter(line, lead) ==
    Len(line) >= lead + 3 /\ line[lead + 1] = "name" /\ line[lead + 2] = ":"

\* line.match(/^(\s*name:\s*).+$/)
NameLineMatches(line) == NameMatchAfter(line, LeadingSpaces(line))

\* the length of m[1]: the blanks after the colon, but for one character that
\* is left to '.+' when nothing else follows
NamePrefixEnd(line, colon, blanks) ==
    IF colon + blanks = Len(line) THEN Len(line) - 1 ELSE colon + blanks

NamePrefixLen(line) ==
    NamePrefixEnd(line, LeadingSpaces(line) + 2, BlanksFrom(line, LeadingSpaces(line) + 3))

\* `${m[1]}"${newName}"`
RenamedLine(line, newName) == SubSeq(line, 1, NamePrefixLen(line)) \o DoubleQuoted(newName)

\* the loop of lines 4889-4896 from position k: the first matching line rewritten
RECURSIVE RenameFirstFrom(_, _, _)
RenameFirstFrom(copied, k, newName) ==
    IF k > Len(copied) THEN copied
    ELSE IF NameLineMatches(copied[k])
    THEN [copied EXCEPT ![k] = RenamedLine(copied[k], newName)]
    ELSE RenameFirstFrom(copied, k + 1, newName)

CopyInsertedBefore(lines, srcLine, srcEnd, copiedLines) == InsertAt(lines, srcLine, copiedLines)

\* lines.splice(srcEnd, 0, ...copiedLines)
CopyInsertedAt(lines, srcLine, srcEnd, copiedLines) == InsertAt(lines, srcEnd, copiedLines)

DuplicateAt(lines, srcLine, srcEnd, periodKey, newKey, newName) ==
    [did |-> "duplicate",
     lines |-> CopyInsertedAt(lines, srcLine, srcEnd,
                              RenameFirstFrom(CopiedLines(lines, srcLine, srcEnd, periodKey,
                                                          newKey),
                                              1, newName))]

\* lines 4876-4879
DuplicateFrom(lines, srcLine, periodsEnd, periodKey, newKey, newName) ==
    IF srcLine < 0 THEN [did |-> "return", lines |-> lines]
    ELSE DuplicateAt(lines, srcLine,
                     findBlockEnd(lines, srcLine, IndentOf(lines[srcLine + 1]), periodsEnd),
                     periodKey, newKey, newName)

DuplicateWithin(lines, periodsLine, periodsIndent, periodsEnd, periodKey, newKey, newName) ==
    DuplicateFrom(lines, findChildKey(lines, periodsLine, periodsEnd, periodsIndent, periodKey),
                  periodsEnd, periodKey, newKey, newName)

DuplicateIn(lines, periodsLine, periodsIndent, sectionEnd, periodKey, newKey, newName) ==
    DuplicateWithin(lines, periodsLine, periodsIndent,
                    findBlockEnd(lines, periodsLine, periodsIndent, sectionEnd),
                    periodKey, newKey, newName)

\* lines 4871-4874
DuplicateUnder(lines, periodsLine, sectionEnd, periodKey, newKey, newName) ==
    IF periodsLine < 0 THEN [did |-> "return", lines |-> lines]
    ELSE DuplicateIn(lines, periodsLine, IndentOf(lines[periodsLine + 1]), sectionEnd,
                     periodKey, newKey, newName)

\* lines 4867-4870
DuplicateInSection(lines, sectionInfo, periodKey, newKey, newName) ==
    IF ~sectionInfo.found THEN [did |-> "return", lines |-> lines]
    ELSE DuplicateUnder(lines,
                        findChildKey(lines, sectionInfo.start, sectionInfo.end,
                                     sectionInfo.indent, PERIODS_KEY),
                        sectionInfo.end, periodKey, newKey, newName)

\* the outcome of duplicateTlPeriod: what it did and the lines it leaves in the editor
duplicateTlPeriod(lines, presetName, periodKey) ==
    IF periodKey \notin TruthyPeriodKeys(lines, presetName)
    THEN [did |-> "return", lines |-> lines]
    ELSE DuplicateInSection(lines, findPresetSection(lines, presetName), periodKey,
                            FreeCopyKey(periodKey, TruthyPeriodKeys(lines, presetName), 1),
                            SourceName(lines, presetName, periodKey) \o COPY_SUFFIX)

----------------------------------------------------------------------------
(* Section CRUD: the periods list of a day plan                             *)

NoPlanList == [line |-> -1, planEnd |-> 0]

PlanListWithin(lines, planLine, planIndent, planEnd) ==
    [line |-> findChildKey(lines, planLine, planEnd, planIndent, PERIODS_KEY),
     planEnd |-> planEnd]

PlanListAt(lines, planLine, dpEnd) ==
    IF planLine < 0 THEN NoPlanList
    ELSE PlanListWithin(lines, planLine, IndentOf(lines[planLine + 1]),
                        findBlockEnd(lines, planLine, IndentOf(lines[planLine + 1]), dpEnd))

PlanListIn(lines, dayPlansLine, dpIndent, dpEnd, planKey) ==
    PlanListAt(lines, findChildKey(lines, dayPlansLine, dpEnd, dpIndent, planKey), dpEnd)

PlanListUnder(lines, dayPlansLine, sectionEnd, planKey) ==
    IF dayPlansLine < 0 THEN NoPlanList
    ELSE PlanListIn(lines, dayPlansLine, IndentOf(lines[dayPlansLine + 1]),
                    findBlockEnd(lines, dayPlansLine, IndentOf(lines[dayPlansLine + 1]),
                                 sectionEnd),
                    planKey)

\* the walk day_plans -> plan -> periods the three list handlers share: the line
\* of the plan's periods key (-1 when a step fails) and the end of the plan
PlanList(lines, sectionInfo, planKey) ==
    PlanListUnder(lines,
                  findChildKey(lines, sectionInfo.start, sectionInfo.end, sectionInfo.indent,
                               DAY_PLANS_KEY),
                  sectionInfo.end, planKey)

ItemLine(indent, periodKey) == Spaces(indent) \o <<"-", SP>> \o periodKey

\* 'periods: []' and 'periods:[]'
EMPTY_LISTS == { <<"periods", ":", SP, "[", "]">>, <<"periods", ":", "[", "]">> }

\* lines 5081-5083
EmptyListOpened(lines, at, indent, periodKey) ==
    InsertAt([lines EXCEPT ![at + 1] = Spaces(indent) \o <<"periods", ":">>], at + 1,
             <<ItemLine(indent + 2, periodKey)>>)

\* .filter(Boolean)
NonEmptyItems(items) == SelectSeq(items, LAMBDA x : x # <<>>)

\* lines 5089-5090
WithPushed(existing, periodKey) ==
    Append(existing,
           IF existing # <<>> /\ StartsWith(existing[1], "\"") THEN DoubleQuoted(periodKey)
           ELSE periodKey)

\* lines 5087-5091
InlineAppended(line, open, close, periodKey) ==
    SubSeq(line, 1, open - 1)
        \o <<"[">>
        \o JoinItems(WithPushed(NonEmptyItems(TrimAll(SplitOn(SubSeq(line, open + 1, close - 1),
                                                              ","))),
                                periodKey))
        \o <<"]">>

\* lines 5085-5096
AddToWrittenList(lines, at, open, planEnd, periodKey) ==
    IF open # 0
    THEN [lines EXCEPT ![at + 1] =
              InlineAppended(lines[at + 1], open, FirstAt(lines[at + 1], "]", open + 1),
                             periodKey)]
    ELSE InsertAt(lines, findBlockEnd(lines, at, IndentOf(lines[at + 1]), planEnd),
                  <<ItemLine(IndentOf(lines[at + 1]) + 2, periodKey)>>)

\* lines 5078-5097
AddToList(lines, at, planEnd, periodKey) ==
    IF Trim(lines[at + 1]) \in EMPTY_LISTS
    THEN EmptyListOpened(lines, at, IndentOf(lines[at + 1]), periodKey)
    ELSE AddToWrittenList(lines, at, InlineOpenAt(lines[at + 1]), planEnd, periodKey)

AddToPlan(lines, list, periodKey) ==
    IF list.line < 0 THEN [did |-> "return", lines |-> lines]
    ELSE [did |-> "edit", lines |-> AddToList(lines, list.line, list.planEnd, periodKey)]

AddInSection(lines, sectionInfo, planKey, periodKey) ==
    IF ~sectionInfo.found THEN [did |-> "return", lines |-> lines]
    ELSE AddToPlan(lines, PlanList(lines, sectionInfo, planKey), periodKey)

\* the outcome of addPeriodToDayPlan
addPeriodToDayPlan(lines, presetName, planKey, periodKey) ==
    AddInSection(lines, findPresetSection(lines, presetName), planKey, periodKey)

\* the loop of lines 5261-5267 from index i
RECURSIVE RemoveFirstItemFrom(_, _, _, _)
RemoveFirstItemFrom(lines, i, pEnd, periodKey) ==
    IF i >= pEnd THEN lines
    ELSE IF ListItemOf(lines[i + 1]) = periodKey THEN RemoveAt(lines, i, 1)
    ELSE RemoveFirstItemFrom(lines, i + 1, pEnd, periodKey)

\* lines 5248-5267
RemoveFromList(lines, at, planEnd, periodKey) ==
    IF InlineOpenAt(lines[at + 1]) # 0
    THEN [lines EXCEPT ![at + 1] = InlineWithout(lines[at + 1], periodKey)]
    ELSE RemoveFirstItemFrom(lines, at + 1,
                             findBlockEnd(lines, at, IndentOf(lines[at + 1]), planEnd),
                             periodKey)

RemoveFromPlan(lines, list, periodKey) ==
    IF list.line < 0 THEN lines ELSE RemoveFromList(lines, list.line, list.planEnd, periodKey)

removePeriodFromDayPlanInLines(lines, sectionInfo, planKey, periodKey) ==
    RemoveFromPlan(lines, PlanList(lines, sectionInfo, planKey), periodKey)

RemoveInSection(lines, sectionInfo, planKey, periodKey) ==
    IF ~sectionInfo.found THEN [did |-> "return", lines |-> lines]
    ELSE [did |-> "edit",
          lines |-> removePeriodFromDayPlanInLines(lines, sectionInfo, planKey, periodKey)]

\* the outcome of removePeriodFromDayPlanUI
removePeriodFromDayPlanUI(lines, presetName, planKey, periodKey) ==
    RemoveInSection(lines, findPresetSection(lines, presetName), planKey, periodKey)

RECURSIVE ItemLines(_, _)
ItemLines(indent, orderedKeys) ==
    IF orderedKeys = <<>> THEN <<>>
    ELSE <<ItemLine(indent, Head(orderedKeys))>> \o ItemLines(indent, Tail(orderedKeys))

\* lines 5458-5463
BlockRewritten(lines, at, pIndent, pEnd, orderedKeys) ==
    InsertAt(RemoveAt(lines, at + 1, pEnd - at - 1), at + 1, ItemLines(pIndent + 2, orderedKeys))

\* lines 5454-5464
ReorderList(lines, at, open, planEnd, orderedKeys) ==
    IF open # 0
    THEN [lines EXCEPT ![at + 1] =
              SubSeq(lines[at + 1], 1, open - 1) \o <<"[">> \o JoinItems(orderedKeys) \o <<"]">>]
    ELSE BlockRewritten(lines, at, IndentOf(lines[at + 1]),
                        findBlockEnd(lines, at, IndentOf(lines[at + 1]), planEnd), orderedKeys)

ReorderPlan(lines, list, orderedKeys) ==
    IF list.line < 0 THEN [did |-> "return", lines |-> lines]
    ELSE [did |-> "edit",
          lines |-> ReorderList(lines, list.line, InlineOpenAt(lines[list.line + 1]),
                                list.planEnd, orderedKeys)]

ReorderInSection(lines, sectionInfo, planKey, orderedKeys) ==
    IF ~sectionInfo.found THEN [did |-> "return", lines |-> lines]
    ELSE ReorderPlan(lines, PlanList(lines, sectionInfo, planKey), orderedKeys)

\* the outcome of reorderDayPlanPeriods
reorderDayPlanPeriods(lines, presetName, planKey, orderedKeys) ==
    ReorderInSection(lines, findPresetSection(lines, presetName), planKey, orderedKeys)

----------------------------------------------------------------------------
(* Section CRUD: day plans and the week map                                 *)

WEEK_MAP_KEY == <<"week_map">>

\* tokens that are no run of the characters [a-zA-Z0-9_]
NON_WORD_TOKENS == {SP, ":", "#", "\"", "'", "[", "]", ",", "-", "(", ")", "(copy)"}

DIGIT_TOKENS == {"0", "1", "2", "3", "4", "5", "6", "7", "8", "9"}

\* /^[a-zA-Z_][a-zA-Z0-9_]*$/.test(planKey)
IsKeyName(planKey) ==
    /\ planKey # <<>>
    /\ planKey[1] \notin DIGIT_TOKENS
    /\ \A k \in 1..Len(planKey) : planKey[k] \notin NON_WORD_TOKENS

\* config.week_map as YAML reads it: the entries under the preset's week_map key
WeekMapReadIn(lines, ind, presetName) ==
    {[day |-> KeyTokenOf(lines[j + 1]), plan |-> ScalarRead(RestOfLine(lines[j + 1]))] :
        j \in ChildLinesIn(ind, ChildEntryIn(lines, ind,
                                             getPresetConfigIn(lines, ind, presetName),
                                             WEEK_MAP_KEY))}

WeekMapRead(lines, presetName) == WeekMapReadIn(lines, Indents(lines), presetName)

\* the days 2..7 only
WeekRefsAfterMonday(weekMap, planKey) ==
    {d \in 2..7 : [day |-> NumberToString(d), plan |-> planKey] \in weekMap}

\* refs of deleteTlDayPlan: the days d of 1..7 with weekMap[d] === planKey
WeekRefsIn(weekMap, planKey) ==
    {d \in 1..7 : [day |-> NumberToString(d), plan |-> planKey] \in weekMap}

WeekRefs(lines, presetName, planKey) == WeekRefsIn(WeekMapRead(lines, presetName), planKey)

\* config?.day_plans?.[planKey] is truthy
HasDayPlanIn(lines, ind, presetName, planKey) ==
    \E j \in DayPlanLinesIn(lines, ind, presetName) :
        KeyTokenOf(lines[j + 1]) = planKey /\ HasValueIn(lines, ind, j)

HasDayPlan(lines, presetName, planKey) ==
    HasDayPlanIn(lines, Indents(lines), presetName, planKey)

\* lines 4994-4997
PlanInsertedAt(lines, dpEnd, dpIndent, planKey) ==
    InsertAt(lines, dpEnd,
             <<Spaces(dpIndent + 2) \o planKey \o <<":">>,
               Spaces(dpIndent + 4) \o <<"periods", ":", SP, "[", "]">>>>)

AddPlanUnder(lines, dayPlansLine, sectionEnd, planKey) ==
    IF dayPlansLine < 0 THEN [did |-> "return", lines |-> lines]
    ELSE [did |-> "add",
          lines |-> PlanInsertedAt(lines,
                                   findBlockEnd(lines, dayPlansLine,
                                                IndentOf(lines[dayPlansLine + 1]), sectionEnd),
                                   IndentOf(lines[dayPlansLine + 1]), planKey)]

AddPlanInSection(lines, sectionInfo, planKey) ==
    IF ~sectionInfo.found THEN [did |-> "return", lines |-> lines]
    ELSE AddPlanUnder(lines,
                      findChildKey(lines, sectionInfo.start, sectionInfo.end,
                                   sectionInfo.indent, DAY_PLANS_KEY),
                      sectionInfo.end, planKey)

\* the outcome of addTlDayPlan, planKey being the answer to the prompt (<<>> when
\* the prompt is cancelled or left empty)
addTlDayPlan(lines, presetName, planKey) ==
    IF planKey = <<>> THEN [did |-> "return", lines |-> lines]
    ELSE IF ~IsKeyName(planKey) THEN [did |-> "error", lines |-> lines]
    ELSE IF HasDayPlan(lines, presetName, planKey) THEN [did |-> "error", lines |-> lines]
    ELSE AddPlanInSection(lines, findPresetSection(lines, presetName), planKey)

\* lines 5042-5045
PlanRemovedAt(lines, planLine, dpEnd) ==
    IF planLine < 0 THEN [did |-> "return", lines |-> lines]
    ELSE [did |-> "delete",
          lines |-> RemoveAt(lines, planLine,
                             findBlockEnd(lines, planLine, IndentOf(lines[planLine + 1]), dpEnd)
                                 - planLine)]

DeletePlanIn(lines, dayPlansLine, dpIndent, dpEnd, planKey) ==
    PlanRemovedAt(lines, findChildKey(lines, dayPlansLine, dpEnd, dpIndent, planKey), dpEnd)

DeletePlanUnder(lines, dayPlansLine, sectionEnd, planKey) ==
    IF dayPlansLine < 0 THEN [did |-> "return", lines |-> lines]
    ELSE DeletePlanIn(lines, dayPlansLine, IndentOf(lines[dayPlansLine + 1]),
                      findBlockEnd(lines, dayPlansLine, IndentOf(lines[dayPlansLine + 1]),
                                   sectionEnd),
                      planKey)

DeletePlanInSection(lines, sectionInfo, planKey) ==
    IF ~sectionInfo.found THEN [did |-> "return", lines |-> lines]
    ELSE DeletePlanUnder(lines,
                         findChildKey(lines, sectionInfo.start, sectionInfo.end,
                                      sectionInfo.indent, DAY_PLANS_KEY),
                         sectionInfo.end, planKey)

\* the outcome of deleteTlDayPlan, confirmed being the answer to the confirm dialog
deleteTlDayPlan(lines, presetName, planKey, confirmed) ==
    IF getPresetConfig(lines, presetName) < 0 THEN [did |-> "return", lines |-> lines]
    ELSE IF WeekRefs(lines, presetName, planKey) # {} THEN [did |-> "refuse", lines |-> lines]
    ELSE IF ~confirmed THEN [did |-> "cancel", lines |-> lines]
    ELSE DeletePlanInSection(lines, findPresetSection(lines, presetName), planKey)

\* lines 4245-4248
DayMappedAt(lines, dayLine, value) ==
    IF dayLine < 0 THEN lines ELSE replaceLineValue(lines, dayLine, StrValue(value))

DayMappedUnder(lines, weekMapLine, wmIndent, wmEnd, dayNum, value) ==
    DayMappedAt(lines, findChildKey(lines, weekMapLine, wmEnd, wmIndent, NumberToString(dayNum)),
                value)

WeekMapped(lines, weekMapLine, sectionEnd, dayNum, value) ==
    IF weekMapLine < 0 THEN [did |-> "return", lines |-> lines]
    ELSE [did |-> "edit",
          lines |-> DayMappedUnder(lines, weekMapLine, IndentOf(lines[weekMapLine + 1]),
                                   findBlockEnd(lines, weekMapLine,
                                                IndentOf(lines[weekMapLine + 1]), sectionEnd),
                                   dayNum, value)]

MapInSection(lines, sectionInfo, dayNum, value) ==
    IF ~sectionInfo.found THEN [did |-> "return", lines |-> lines]
    ELSE WeekMapped(lines,
                    findChildKey(lines, sectionInfo.start, sectionInfo.end, sectionInfo.indent,
                                 WEEK_MAP_KEY),
                    sectionInfo.end, dayNum, value)

\* the outcome of onTlWeekMap; lines 4201-4235 are the scan of findPresetSection
onTlWeekMap(lines, presetName, dayNum, value) ==
    MapInSection(lines, findPresetSection(lines, presetName), dayNum, value)

----------------------------------------------------------------------------
(* Schedule documents and calls the schedule editor is exercised on         *)

MaxTlEdits == 1

RECURSIVE Indented(_, _)
Indented(n, lines) ==
    IF lines = <<>> THEN <<>>
    ELSE <<Spaces(n) \o Head(lines)>> \o Indented(n, Tail(lines))

KeyOnly(key) == <<key, ":">>
KeyValue(key, value) == <<key, ":", SP>> \o value
QuotedWord(w) == <<"\"", w, "\"">>
SomeComment == <<SP, SP, "#", SP, "c">>

FullDefault ==
    <<KeyOnly("default")>>
        \o Indented(2, <<KeyValue("push", <<"true">>), KeyOnly("once")>>)
        \o Indented(4, <<KeyValue("push", <<"false">>)>>)

\* a preset's default block: absent, flat, or with a once sub-block
DefaultBlocks ==
    { <<>>,
      <<KeyOnly("default")>> \o Indented(2, <<KeyValue("push", <<"true">>)>>),
      FullDefault }

PeriodP ==
    <<KeyOnly("p")>>
        \o Indented(2, <<KeyValue("name", QuotedWord("P")) \o SomeComment,
                         KeyValue("push", <<"true">>)>>)

PeriodQ == <<<<"#", SP, "late">>, KeyOnly("q")>> \o Indented(2, <<KeyValue("push", <<"false">>)>>)

TwoPeriods == <<KeyOnly("periods")>> \o Indented(2, PeriodP \o PeriodQ)

\* a preset's periods block: absent, one period, or two
PeriodsBlocks == { <<>>, <<KeyOnly("periods")>> \o Indented(2, PeriodP), TwoPeriods }

InlineList(items) == <<"[">> \o JoinItems(items) \o <<"]">>

InlinePlan == <<KeyValue("periods", InlineList(<< <<"p">>, <<"q">> >>))>>

OnePlan(body) ==
    <<KeyOnly("day_plans")>> \o Indented(2, <<KeyOnly("all_day")>> \o Indented(2, body))

\* the ways a day plan's periods list is written
PlanBodies ==
    { InlinePlan,
      <<KeyValue("periods", <<"[", "]">>)>>,
      <<KeyValue("periods", <<"[", "p", ",", "q", "]">>)>>,
      <<KeyValue("periods", InlineList(<<QuotedWord("p"), QuotedWord("q")>>)) \o SomeComment>>,
      <<KeyOnly("periods")>> \o Indented(2, << <<"-", SP, "p">>, <<"-", SP, "q">> >>),
      <<KeyOnly("periods")>>
          \o Indented(2, << <<"-", SP>> \o QuotedWord("p"), <<"-", SP, "q">> >>),
      <<KeyOnly("periods")>>
          \o Indented(2, << <<"-", SP, "p">> \o SomeComment, <<"-", SP, "q">> >>) }

\* a preset's day_plans block: absent, one plan, or two plans that both list p
DayPlansBlocks ==
    {<<>>}
    \cup { OnePlan(body) : body \in PlanBodies }
    \cup { <<KeyOnly("day_plans")>>
             \o Indented(2, <<KeyOnly("all_day")>>
                              \o Indented(2, <<KeyValue("periods", InlineList(<< <<"p">> >>))>>)
                              \o <<KeyOnly("rest")>>
                              \o Indented(2, <<KeyOnly("periods")>>
                                               \o Indented(2, << <<"-", SP, "p">> >>))) }

WeekMap == <<KeyOnly("week_map")>> \o Indented(2, <<KeyValue("1", <<"all_day">>)>>)

PresetB ==
    <<KeyOnly("b")>>
        \o Indented(2, <<KeyOnly("default")>> \o Indented(2, <<KeyValue("push", <<"false">>)>>))

CustomSection ==
    <<KeyOnly("custom")>>
        \o Indented(2, <<KeyOnly("default")>> \o Indented(2, <<KeyValue("push", <<"true">>)>>)
                       \o <<KeyOnly("periods")>> \o Indented(2, PeriodP))

\* what follows preset a: nothing (the text ends with its last line), or its
\* week_map, a second preset, the custom section and the final newline
DocTails ==
    { <<>>,
      Indented(4, WeekMap) \o <<<<>>>> \o Indented(2, PresetB) \o CustomSection \o <<<<>>>> }

TimelineDoc(d, p, l, t) ==
    <<KeyOnly("presets")>>
        \o Indented(2, <<KeyOnly("a")>>)
        \o Indented(4, <<KeyValue("name", QuotedWord("A"))>> \o d \o p \o l)
        \o t

\* every default and periods block with an inline day plan, and every way of
\* writing the day plans around a full default block and two periods
TimelineDocs ==
    { TimelineDoc(d, p, OnePlan(InlinePlan), t) :
        d \in DefaultBlocks, p \in PeriodsBlocks, t \in DocTails }
    \cup { TimelineDoc(FullDefault, TwoPeriods, l, t) : l \in DayPlansBlocks, t \in DocTails }

\* field paths and new values of calls
PushField == [field |-> << <<"push">> >>, value |-> BoolValue(FALSE)]
NameField == [field |-> << <<"name">> >>, value |-> StrValue(<<"A", ":", "B">>)]
OnceAnalyzeField == [field |-> << <<"once">>, <<"analyze">> >>, value |-> BoolValue(TRUE)]
OncePushField == [field |-> << <<"once">>, <<"push">> >>, value |-> BoolValue(TRUE)]

UpdateCall(presetName, periodKey, f) ==
    [presetName |-> presetName, periodKey |-> periodKey, f |-> f]

\* names that are no preset: a day plan's name, a period's key, a name that
\* occurs nowhere
StrangerNames == { <<"all_day">>, <<"p">>, <<"zz">> }

\* the calls of updateTimelineField: on the blocks of preset a, of preset b and of
\* custom, for a period that is missing, and for names that are no preset
UpdateCalls ==
    { UpdateCall(<<"a">>, DEFAULT_KEY, f) :
        f \in {PushField, NameField, OnceAnalyzeField, OncePushField} }
    \cup { UpdateCall(<<"a">>, <<"p">>, f) : f \in {PushField, NameField} }
    \cup { UpdateCall(<<"a">>, <<"q">>, f) : f \in {NameField, OnceAnalyzeField} }
    \cup { UpdateCall(CUSTOM, DEFAULT_KEY, f) : f \in {PushField, OnceAnalyzeField} }
    \cup { UpdateCall(<<"a">>, <<"zz">>, PushField), UpdateCall(<<"b">>, DEFAULT_KEY, NameField) }
    \cup { UpdateCall(n, DEFAULT_KEY, PushField) : n \in StrangerNames }
    \cup { UpdateCall(<<"all_day">>, <<"p">>, PushField) }

DeleteCall(presetName, periodKey, confirmed) ==
    [presetName |-> presetName, periodKey |-> periodKey, confirmed |-> confirmed]

\* the calls of deleteTlPeriod, with the user's answer to the confirm dialog
DeleteCalls ==
    { DeleteCall(<<"a">>, <<"p">>, c) : c \in BOOLEAN }
    \cup { DeleteCall(<<"a">>, k, TRUE) : k \in { <<"q">>, <<"zz">> } }
    \cup { DeleteCall(n, <<"p">>, TRUE) : n \in {CUSTOM, <<"all_day">>, <<"zz">>} }

\* the calls of duplicateTlPeriod
DuplicateCalls ==
    { [presetName |-> <<"a">>, periodKey |-> k] : k \in { <<"p">>, <<"q">>, <<"zz">> } }
    \cup { [presetName |-> n, periodKey |-> <<"p">>] : n \in {CUSTOM, <<"all_day">>, <<"zz">>} }

\* the day plans the panel renders for the preset, by the line of their key
RenderedPlans(lines, presetName) == DayPlanLinesIn(lines, Indents(lines), presetName)

\* plan.periods || [] of the day plan on line j
PlanPeriodsRead(lines, j) == PlanPeriodsReadIn(lines, Indents(lines), j)

\* the orders the tags of a set of period keys can be dragged into
Orderings(S) ==
    {o \in [1..Cardinality(S) -> S] : \A i, j \in 1..Cardinality(S) : o[i] = o[j] => i = j}

ListCall(presetName, planKey, periodKey, orderedKeys) ==
    [presetName |-> presetName, planKey |-> planKey, periodKey |-> periodKey,
     orderedKeys |-> orderedKeys]

\* the '+' select of a plan offers the preset's periods the plan does not list
AddCalls(lines, presetName) ==
    UNION {{ListCall(presetName, KeyTokenOf(lines[j + 1]), k, <<>>) :
               k \in PeriodKeysRead(lines, presetName) \ PlanPeriodsRead(lines, j)} :
           j \in RenderedPlans(lines, presetName)}

\* every tag of a plan has a remove button
RemoveCalls(lines, presetName) ==
    UNION {{ListCall(presetName, KeyTokenOf(lines[j + 1]), k, <<>>) :
               k \in PlanPeriodsRead(lines, j)} : j \in RenderedPlans(lines, presetName)}

\* the tags of a plan dropped in any order
ReorderCalls(lines, presetName) ==
    UNION {{ListCall(presetName, KeyTokenOf(lines[j + 1]), <<>>, o) :
               o \in Orderings(PlanPeriodsRead(lines, j))} :
           j \in RenderedPlans(lines, presetName)}

ListOpOf(op, c, before, did) ==
    [op |-> op, presetName |-> c.presetName, planKey |-> c.planKey, periodKey |-> c.periodKey,
     orderedKeys |-> c.orderedKeys, before |-> before, did |-> did, n |-> tlOp.n + 1]

TlOpLoad ==
    [op |-> "load", presetName |-> <<>>, periodKey |-> <<>>, field |-> <<>>,
     value |-> BoolValue(FALSE), confirmed |-> FALSE, before |-> <<>>, did |-> "none", n |-> 0]

TlInit ==
    /\ currentTimeline \in TimelineDocs
    /\ tlOp = TlOpLoad
    /\ FreqIdle /\ PatchIdle /\ YamlIdle /\ LoadIdle

UpdateTimelineFieldStep ==
    /\ tlOp.n < MaxTlEdits
    /\ \E c \in UpdateCalls :
        LET out == updateTimelineField(currentTimeline, c.presetName, c.periodKey,
                                       c.f.field, c.f.value)
        IN  /\ currentTimeline' = out.lines
            /\ tlOp' = [op |-> "updateTimelineField", presetName |-> c.presetName,
                        periodKey |-> c.periodKey, field |-> c.f.field, value |-> c.f.value,
                        confirmed |-> FALSE, before |-> currentTimeline, did |-> out.did,
                        n |-> tlOp.n + 1]
            /\ UNCHANGED <<freqVars, patchVars, yamlVars, loadVars>>

DeleteTlPeriodStep ==
    /\ tlOp.n < MaxTlEdits
    /\ \E c \in DeleteCalls :
        LET out == deleteTlPeriod(currentTimeline, c.presetName, c.periodKey, c.confirmed)
        IN  /\ currentTimeline' = out.lines
            /\ tlOp' = [op |-> "deleteTlPeriod", presetName |-> c.presetName,
                        periodKey |-> c.periodKey, field |-> <<>>, value |-> BoolValue(FALSE),
                        confirmed |-> c.confirmed, before |-> currentTimeline, did |-> out.did,
                        n |-> tlOp.n + 1]
            /\ UNCHANGED <<freqVars, patchVars, yamlVars, loadVars>>

DuplicateTlPeriodStep ==
    /\ tlOp.n < MaxTlEdits
    /\ \E c \in DuplicateCalls :
        LET out == duplicateTlPeriod(currentTimeline, c.presetName, c.periodKey)
        IN  /\ currentTimeline' = out.lines
            /\ tlOp' = [op |-> "duplicateTlPeriod", presetName |-> c.presetName,
                        periodKey |-> c.periodKey, field |-> <<>>, value |-> BoolValue(FALSE),
                        confirmed |-> FALSE, before |-> currentTimeline, did |-> out.did,
                        n |-> tlOp.n + 1]
            /\ UNCHANGED <<freqVars, patchVars, yamlVars, loadVars>>

AddPeriodToDayPlanStep ==
    /\ tlOp.n < MaxTlEdits
    /\ \E c \in AddCalls(currentTimeline, <<"a">>) :
        LET out == addPeriodToDayPlan(currentTimeline, c.presetName, c.planKey, c.periodKey)
        IN  /\ currentTimeline' = out.lines
            /\ tlOp' = ListOpOf("addPeriodToDayPlan", c, currentTimeline, out.did)
            /\ UNCHANGED <<freqVars, patchVars, yamlVars, loadVars>>

RemovePeriodFromDayPlanUIStep ==
    /\ tlOp.n < MaxTlEdits
    /\ \E c \in RemoveCalls(currentTimeline, <<"a">>) :
        LET out == removePeriodFromDayPlanUI(currentTimeline, c.presetName, c.planKey,
                                             c.periodKey)
        IN  /\ currentTimeline' = out.lines
            /\ tlOp' = ListOpOf("removePeriodFromDayPlanUI", c, currentTimeline, out.did)
            /\ UNCHANGED <<freqVars, patchVars, yamlVars, loadVars>>

ReorderDayPlanPeriodsStep ==
    /\ tlOp.n < MaxTlEdits
    /\ \E c \in ReorderCalls(currentTimeline, <<"a">>) :
        LET out == reorderDayPlanPeriods(currentTimeline, c.presetName, c.planKey,
                                         c.orderedKeys)
        IN  /\ currentTimeline' = out.lines
            /\ tlOp' = ListOpOf("reorderDayPlanPeriods", c, currentTimeline, out.did)
            /\ UNCHANGED <<freqVars, patchVars, yamlVars, loadVars>>

\* number of successive calls for the same field
MaxRepeats == 3

\* the values the calls for a field are made with
RepeatValues(fieldParts) ==
    IF fieldParts = << <<"name">> >>
    THEN {StrValue(<<"Bob">>), StrValue(<<"A", ":", "B">>), StrValue(<<"x", "#", "y">>)}
    ELSE {BoolValue(TRUE), BoolValue(FALSE)}

\* the blocks and fields repeated calls are made for
RepeatTargets ==
    { UpdateCall(<<"a">>, DEFAULT_KEY, f) : f \in {PushField, OnceAnalyzeField} }
    \cup { UpdateCall(<<"a">>, <<"p">>, NameField) }
    \cup { UpdateCall(<<"a">>, <<"q">>, f) : f \in {NameField, OnceAnalyzeField} }
    \cup { UpdateCall(CUSTOM, DEFAULT_KEY, OnceAnalyzeField), UpdateCall(<<"a">>, <<"zz">>, PushField) }

\* updateTimelineField called again and again for one preset, period and field
RepeatUpdateTimelineFieldStep ==
    /\ tlOp.n < MaxRepeats
    /\ \E c \in RepeatTargets : \E value \in RepeatValues(c.f.field) :
        /\ \/ tlOp.op = "load"
           \/ /\ c.presetName = tlOp.presetName
              /\ c.periodKey = tlOp.periodKey
              /\ c.f.field = tlOp.field
        /\ LET out == updateTimelineField(currentTimeline, c.presetName, c.periodKey,
                                          c.f.field, value)
           IN  /\ currentTimeline' = out.lines
               /\ tlOp' = [op |-> "updateTimelineField", presetName |-> c.presetName,
                           periodKey |-> c.periodKey, field |-> c.f.field, value |-> value,
                           confirmed |-> FALSE, before |-> currentTimeline, did |-> out.did,
                           n |-> tlOp.n + 1,
                           firstDid |-> IF tlOp.op = "load" THEN out.did ELSE tlOp.firstDid]
        /\ UNCHANGED <<freqVars, patchVars, yamlVars, loadVars>>

TlRepeatNext == RepeatUpdateTimelineFieldStep

SpecTlRepeat == TlInit /\ [][TlRepeatNext]_vars

TlNext ==
    \/ UpdateTimelineFieldStep
    \/ DeleteTlPeriodStep
    \/ DuplicateTlPeriodStep
    \/ AddPeriodToDayPlanStep
    \/ RemovePeriodFromDayPlanUIStep
    \/ ReorderDayPlanPeriodsStep

SpecTl == TlInit /\ [][TlNext]_vars

----------------------------------------------------------------------------
(* Documents and calls the day plan and week map handlers are exercised on  *)

\* number of successive calls on a document
MaxWeekEdits == 2

TwoDayPlans ==
    <<KeyOnly("day_plans")>>
        \o Indented(2, <<KeyOnly("all_day")>>
                         \o Indented(2, <<KeyValue("periods", InlineList(<< <<"p">> >>))>>)
                         \o <<KeyOnly("rest")>>
                         \o Indented(2, <<KeyOnly("periods")>>
                                          \o Indented(2, << <<"-", SP, "p">> >>)))

\* a week map in which every day names all_day or rest, with a comment and a
\* quoted value
TwoDayWeekMap ==
    <<KeyOnly("week_map")>>
        \o Indented(2, <<KeyValue("1", <<"all_day">>) \o SomeComment,
                         KeyValue("2", QuotedWord("rest"))>>)

CustomWithWeek ==
    <<KeyOnly("custom")>>
        \o Indented(2, <<KeyOnly("day_plans")>>
                         \o Indented(2, <<KeyOnly("all_day")>>
                                          \o Indented(2, <<KeyValue("periods", <<"[", "]">>)>>))
                         \o <<KeyOnly("week_map")>>
                         \o Indented(2, <<KeyValue("1", <<"all_day">>)>>))

\* what follows preset a: nothing, or a second preset, the custom section and the
\* final newline
WeekTails == { <<>>, <<<<>>>> \o Indented(2, PresetB) \o CustomWithWeek \o <<<<>>>> }

\* preset a with its day plans before or after its week map
WeekDocs ==
    { <<KeyOnly("presets")>>
          \o Indented(2, <<KeyOnly("a")>>)
          \o Indented(4, IF plansFirst THEN TwoDayPlans \o TwoDayWeekMap
                          ELSE TwoDayWeekMap \o TwoDayPlans)
          \o t :
        plansFirst \in BOOLEAN, t \in WeekTails }

\* every week_map entry of the preset names a day plan of the preset
WeekMapNamesPlans(lines, presetName) ==
    \A e \in WeekMapRead(lines, presetName) :
        e.plan \in {KeyTokenOf(lines[j + 1]) : j \in RenderedPlans(lines, presetName)}

\* the presets the handlers are called for
WeekPresets == { <<"a">>, CUSTOM }

\* the preset whose panel is open: the calls of a sequence are made for one preset
OpenPresets == IF tlOp.op = "load" THEN WeekPresets ELSE {tlOp.presetName}

\* answers to the prompt of addTlDayPlan: a new key, the key of an existing plan,
\* a key the pattern rejects, and a cancelled prompt
PromptAnswers == { <<"holiday">>, <<"rest">>, <<"my", "-", "plan">>, <<>> }

\* the keys of the day plans the panel renders for the preset
RenderedPlanKeys(lines, presetName) ==
    {KeyTokenOf(lines[j + 1]) : j \in RenderedPlans(lines, presetName)}

\* the week map panel has a select for each of the days 1..7
WeekDays == 1..7

WeekOpOf(op, presetName, planKey, dayNum, confirmed, before, did) ==
    [op |-> op, presetName |-> presetName, planKey |-> planKey, dayNum |-> dayNum,
     confirmed |-> confirmed, before |-> before, did |-> did, n |-> tlOp.n + 1]

WeekInit ==
    /\ currentTimeline \in WeekDocs
    /\ tlOp = TlOpLoad
    /\ FreqIdle /\ PatchIdle /\ YamlIdle /\ LoadIdle

AddTlDayPlanStep ==
    /\ tlOp.n < MaxWeekEdits
    /\ \E presetName \in OpenPresets : \E planKey \in PromptAnswers :
        LET out == addTlDayPlan(currentTimeline, presetName, planKey)
        IN  /\ currentTimeline' = out.lines
            /\ tlOp' = WeekOpOf("addTlDayPlan", presetName, planKey, 0, FALSE,
                                currentTimeline, out.did)
            /\ UNCHANGED <<freqVars, patchVars, yamlVars, loadVars>>

\* every rendered day plan has a delete button
DeleteTlDayPlanStep ==
    /\ tlOp.n < MaxWeekEdits
    /\ \E presetName \in OpenPresets :
       \E planKey \in RenderedPlanKeys(currentTimeline, presetName) :
       \E confirmed \in BOOLEAN :
        LET out == deleteTlDayPlan(currentTimeline, presetName, planKey, confirmed)
        IN  /\ currentTimeline' = out.lines
            /\ tlOp' = WeekOpOf("deleteTlDayPlan", presetName, planKey, 0, confirmed,
                                currentTimeline, out.did)
            /\ UNCHANGED <<freqVars, patchVars, yamlVars, loadVars>>

\* the select of a day offers the keys of the rendered day plans
OnTlWeekMapStep ==
    /\ tlOp.n < MaxWeekEdits
    /\ \E presetName \in OpenPresets :
       \E dayNum \in WeekDays :
       \E value \in RenderedPlanKeys(currentTimeline, presetName) :
        LET out == onTlWeekMap(currentTimeline, presetName, dayNum, value)
        IN  /\ currentTimeline' = out.lines
            /\ tlOp' = WeekOpOf("onTlWeekMap", presetName, value, dayNum, FALSE,
                                currentTimeline, out.did)
            /\ UNCHANGED <<freqVars, patchVars, yamlVars, loadVars>>

WeekNext ==
    \/ AddTlDayPlanStep
    \/ DeleteTlDayPlanStep
    \/ OnTlWeekMapStep

SpecWeek == WeekInit /\ [][WeekNext]_vars

----------------------------------------------------------------------------
(* Properties of the schedule editor                                        *)

\* the line of the period's (or the default) block as the loaded document has it:
\* the preset under presets (or top-level custom), its periods child, the period
TargetUnder(lines, ind, cfg, periodKey) ==
    IF periodKey = DEFAULT_KEY THEN ChildEntryIn(lines, ind, cfg, DEFAULT_KEY)
    ELSE ChildEntryIn(lines, ind, ChildEntryIn(lines, ind, cfg, PERIODS_KEY), periodKey)

TargetReadIn(lines, ind, presetName, periodKey) ==
    TargetUnder(lines, ind, getPresetConfigIn(lines, ind, presetName), periodKey)

TargetRead(lines, presetName, periodKey) ==
    TargetReadIn(lines, Indents(lines), presetName, periodKey)

UpdatedField == tlOp.op = "updateTimelineField"

FieldLinesFor(indent, key, value) ==
    {Spaces(indent) \o key \o <<":", SP>> \o r : r \in Renderings(value)}

\* one line 'key: value' put two columns deeper than line t at the end of its block
OneLineAdded(lines, ind, t, key, value) ==
    {InsertAt(lines, SpanEndIn(ind, t), <<l>>) : l \in FieldLinesFor(ind[t + 1] + 2, key, value)}

\* a 'parent:' line and a nested child line put at the end of the block of line t
TwoLinesAdded(lines, ind, t, fieldParts, value) ==
    {InsertAt(lines, SpanEndIn(ind, t), <<Spaces(ind[t + 1] + 2) \o fieldParts[1] \o <<":">>, l>>) :
        l \in FieldLinesFor(ind[t + 1] + 4, fieldParts[2], value)}

NestedAdded(lines, ind, t, fieldParts, value, parentLine) ==
    IF parentLine >= 0 THEN OneLineAdded(lines, ind, parentLine, fieldParts[2], value)
    ELSE TwoLinesAdded(lines, ind, t, fieldParts, value)

\* the texts the claim allows after an insertion into the block on line t
InsertionsInto(lines, ind, t, fieldParts, value) ==
    IF t < 0 THEN {}
    ELSE IF Len(fieldParts) = 1 THEN OneLineAdded(lines, ind, t, fieldParts[1], value)
    ELSE NestedAdded(lines, ind, t, fieldParts, value,
                     ChildEntryIn(lines, ind, t, fieldParts[1]))

InsertionsAllowed(lines, ind, presetName, periodKey, fieldParts, value) ==
    InsertionsInto(lines, ind, TargetReadIn(lines, ind, presetName, periodKey), fieldParts, value)

\* C8: when the field is missing from the located block the call only adds lines:
\* one 'key: value' line two columns deeper than the block's key at the block's
\* end for a single key; for parent.child one child line at the end of the parent
\* block, or a 'parent:' line and a nested child line at the block's end when the
\* parent is absent. Every line of the old text is kept, in the same order.
C8_InsertOnlyAddsLines ==
    (UpdatedField /\ tlOp.did = "insert")
        => currentTimeline \in
              InsertionsAllowed(tlOp.before, Indents(tlOp.before), tlOp.presetName,
                                tlOp.periodKey, tlOp.field, tlOp.value)

\* a parent.child field inserted together with its parent line
C8_Witness ==
    /\ UpdatedField
    /\ tlOp.did = "insert"
    /\ Len(tlOp.field) = 2
    /\ Len(currentTimeline) = Len(tlOp.before) + 2

\* C9: after a confirmed deleteTlPeriod on a period that day plans reference, the
\* period is no longer among the preset's periods and no day plan of the preset
\* lists it, however the plans' lists are written.
C9_DeleteSweepsReferences ==
    ( /\ tlOp.op = "deleteTlPeriod"
      /\ tlOp.confirmed
      /\ tlOp.periodKey \in PeriodKeysRead(tlOp.before, tlOp.presetName)
      /\ PeriodRefs(tlOp.before, tlOp.presetName, tlOp.periodKey) # {} )
        => /\ tlOp.periodKey \notin PeriodKeysRead(currentTimeline, tlOp.presetName)
           /\ PeriodRefs(currentTimeline, tlOp.presetName, tlOp.periodKey) = {}

\* the first copied line: the source's key line with only its key token replaced
\* by a key the periods did not have
KeyLineRewritten(src, copy, periodKey, taken) ==
    /\ KeyTokenOf(src) = periodKey
    /\ KeyTokenOf(copy) \in {CopyKeyAt(periodKey, i) : i \in 1..3} \ taken
    /\ SubSeq(copy, 1, LeadingSpaces(copy)) = SubSeq(src, 1, LeadingSpaces(src))
    /\ SubSeq(copy, KeyColonAt(copy), Len(copy)) = SubSeq(src, KeyColonAt(src), Len(src))

\* the copy's name line: the source's 'name:' prefix and a value that reads as the
\* source's name followed by the copy suffix
NameSuffixed(src, copy) ==
    /\ KeyPrefix(copy) = KeyPrefix(src)
    /\ ScalarRead(RestOfLine(copy)) = ScalarRead(RestOfLine(src)) \o COPY_SUFFIX

\* the copy of the span s..e-1 of `before` sits at e..e+(e-s)-1 of `after`
CopyOfSpan(before, after, s, e, nameLine, periodKey, taken) ==
    /\ Len(after) = Len(before) + (e - s)
    /\ SubSeq(after, 1, e) = SubSeq(before, 1, e)
    /\ SubSeq(after, e + (e - s) + 1, Len(after)) = SubSeq(before, e + 1, Len(before))
    /\ KeyLineRewritten(before[s + 1], after[e + 1], periodKey, taken)
    /\ \A k \in 1..(e - s - 1) :
          IF s + k = nameLine THEN NameSuffixed(before[s + k + 1], after[e + k + 1])
          ELSE after[e + k + 1] = before[s + k + 1]

CopyOfPeriodAt(before, after, ind, s, periodKey, taken) ==
    CopyOfSpan(before, after, s, SpanEndIn(ind, s), ChildEntryIn(before, ind, s, <<"name">>),
               periodKey, taken)

CopyOfPeriod(before, after, presetName, periodKey) ==
    CopyOfPeriodAt(before, after, Indents(before), TargetRead(before, presetName, periodKey),
                   periodKey, PeriodKeysRead(before, presetName))

ListEdited ==
    /\ tlOp.op \in {"addPeriodToDayPlan", "removePeriodFromDayPlanUI", "reorderDayPlanPeriods"}
    /\ tlOp.did = "edit"

\* the line of the periods key of the plan, as the loaded document has it
PlanListReadIn(lines, ind, presetName, planKey) ==
    ChildEntryIn(lines, ind,
                 ChildEntryIn(lines, ind,
                              ChildEntryIn(lines, ind, getPresetConfigIn(lines, ind, presetName),
                                           DAY_PLANS_KEY),
                              planKey),
                 PERIODS_KEY)

PlanListRead(lines, presetName, planKey) ==
    PlanListReadIn(lines, Indents(lines), presetName, planKey)

IsInlineList(line) == StartsWith(Trim(RestOfLine(line)), "[")

\* the numbers of blanks that follow the commas of the line
CommaGaps(line) == {BlanksFrom(line, c + 1) : c \in {k \in 1..Len(line) : line[k] = ","}}

\* an inline list stays one bracketed line with the spacing its commas had
InlineKept(before, after, pl) ==
    /\ Len(after) = Len(before)
    /\ \A k \in 1..Len(before) : k # pl + 1 => after[k] = before[k]
    /\ KeyPrefix(after[pl + 1]) = KeyPrefix(before[pl + 1])
    /\ IsInlineList(after[pl + 1])
    /\ CommaGaps(before[pl + 1]) # {} => CommaGaps(after[pl + 1]) \subseteq CommaGaps(before[pl + 1])

DashLinesIn(lines, ind, pl) ==
    {j \in ChildLinesIn(ind, pl) : lines[j + 1][ind[j + 1] + 1] = "-"}

\* in a block list every line up to the periods key and every line after the
\* list is as it was, and the line of every item the list still has is kept
BlockKept(before, after, pl, endBefore, itemsAfter) ==
    /\ Len(after) >= pl + 1
    /\ SubSeq(after, 1, pl + 1) = SubSeq(before, 1, pl + 1)
    /\ SubSeq(after, endBefore + Len(after) - Len(before) + 1, Len(after))
          = SubSeq(before, endBefore + 1, Len(before))
    /\ \A j \in DashLinesIn(before, Indents(before), pl) :
          ScalarRead(Tail(Trim(before[j + 1]))) \in itemsAfter
             => \E k \in (pl + 2)..Len(after) : after[k] = before[j + 1]

WrittenFormKept(before, after, pl, presetName, planKey) ==
    IF pl < 0 THEN after = before
    ELSE IF IsInlineList(before[pl + 1]) THEN InlineKept(before, after, pl)
    ELSE BlockKept(before, after, pl, SpanEnd(before, pl),
                   PlanPeriodsRead(after, LeastOr({j \in RenderedPlans(after, presetName) :
                                                      KeyTokenOf(after[j + 1]) = planKey}, -1)))

\* C22: adding, removing or reordering an item of a day plan's periods list keeps
\* the list's written form: an inline list stays one bracketed line with its
\* comma spacing, and in a block list only item lines are added or removed while
\* the line of every surviving item keeps its text and comment.
C22_ListKeepsWrittenForm ==
    ListEdited
        => WrittenFormKept(tlOp.before, currentTimeline,
                           PlanListRead(tlOp.before, tlOp.presetName, tlOp.planKey),
                           tlOp.presetName, tlOp.planKey)

\* the lines of the block on line t that carry the key
KeyLinesUnder(lines, ind, t, key) ==
    {j \in ChildLinesIn(ind, t) : KeyTokenOf(lines[j + 1]) = key}

\* the lines that carry the field of the call inside the block on line t
FieldLinesUnder(lines, ind, t, fieldParts) ==
    IF Len(fieldParts) = 1 THEN KeyLinesUnder(lines, ind, t, fieldParts[1])
    ELSE UNION {KeyLinesUnder(lines, ind, j, fieldParts[2]) :
                   j \in KeyLinesUnder(lines, ind, t, fieldParts[1])}

FieldLinesIn(lines, ind, presetName, periodKey, fieldParts) ==
    FieldLinesUnder(lines, ind, TargetReadIn(lines, ind, presetName, periodKey), fieldParts)

FieldLines(lines, presetName, periodKey, fieldParts) ==
    FieldLinesIn(lines, Indents(lines), presetName, periodKey, fieldParts)

RepeatedUpdate == UpdatedField /\ "firstDid" \in DOMAIN tlOp

\* C27: repeated calls for the same preset, period and field never make a second
\* line for the field: when the first call inserted the field, every later call
\* replaces the value on that line, the number of lines stays what it was after
\* the insertion, and the block holds exactly one line for the field (and one
\* for the parent of a parent.child field).
C27_RepeatedUpdateKeepsOneLine ==
    (RepeatedUpdate /\ tlOp.firstDid = "insert")
        => /\ Cardinality(FieldLines(currentTimeline, tlOp.presetName, tlOp.periodKey,
                                     tlOp.field)) = 1
           /\ Cardinality(FieldLines(currentTimeline, tlOp.presetName, tlOp.periodKey,
                                     <<tlOp.field[1]>>)) = 1
           /\ tlOp.n >= 2 => /\ tlOp.did = "replace"
                             /\ Len(currentTimeline) = Len(tlOp.before)

\* the third call for a parent.child field that the first call inserted
C27_Witness ==
    /\ RepeatedUpdate
    /\ tlOp.firstDid = "insert"
    /\ tlOp.n = 3
    /\ Len(tlOp.field) = 2
    /\ tlOp.did = "replace"
    /\ currentTimeline # tlOp.before

----------------------------------------------------------------------------
(* Line arrays and calls the navigator is exercised on                      *)

\* number of lines of the longest line array
MaxNavLines == 3

NavLines ==
    { <<>>,
      <<"#", SP, "c">>,
      <<"presets", ":">>,
      <<"custom", ":", SP, "x">>,
      <<SP, SP, "a", ":">>,
      <<SP, SP, "b", ":", SP, "x">>,
      <<SP, SP, SP, SP, "a", ":", SP, "x">> }

NavDocs == UNION {[1..n -> NavLines] : n \in 1..MaxNavLines}

NavKeys == { <<"a">>, <<"b">> }

NavIndents == {0, 2}

NavInit ==
    /\ currentTimeline \in NavDocs
    /\ tlOp = [op |-> "load"]
    /\ FreqIdle /\ PatchIdle /\ YamlIdle /\ LoadIdle

FindChildKeyStep ==
    /\ tlOp.op = "load"
    /\ \E start \in 0..(Len(currentTimeline) - 1) : \E end \in (start + 1)..Len(currentTimeline) :
         \E parentIndent \in NavIndents : \E key \in NavKeys :
            tlOp' = [op |-> "findChildKey", start |-> start, end |-> end,
                     indent |-> parentIndent, key |-> key,
                     result |-> findChildKey(currentTimeline, start, end, parentIndent, key)]
    /\ UNCHANGED <<currentTimeline, freqVars, patchVars, yamlVars, loadVars>>

FindBlockEndStep ==
    /\ tlOp.op = "load"
    /\ \E start \in 0..(Len(currentTimeline) - 1) : \E maxEnd \in (start + 1)..Len(currentTimeline) :
         \E indent \in NavIndents :
            tlOp' = [op |-> "findBlockEnd", start |-> start, end |-> maxEnd,
                     indent |-> indent, key |-> <<>>,
                     result |-> findBlockEnd(currentTimeline, start, indent, maxEnd)]
    /\ UNCHANGED <<currentTimeline, freqVars, patchVars, yamlVars, loadVars>>

FindPresetSectionStep ==
    /\ tlOp.op = "load"
    /\ \E presetName \in NavKeys \cup {CUSTOM} :
            tlOp' = [op |-> "findPresetSection", start |-> 0, end |-> 0,
                     indent |-> 0, key |-> presetName,
                     result |-> findPresetSection(currentTimeline, presetName)]
    /\ UNCHANGED <<currentTimeline, freqVars, patchVars, yamlVars, loadVars>>

NavNext ==
    \/ FindChildKeyStep
    \/ FindBlockEndStep
    \/ FindPresetSectionStep

\* the navigator's three functions, each applied once to a short line array
\* (they are pure: a second call on the same array returns the same)
SpecNav == NavInit /\ [][NavNext]_vars

----------------------------------------------------------------------------
(* Properties of the navigator                                              *)

\* a line that is neither blank nor a comment
Significant(lines, i) == ~IsBlankOrComment(lines[i + 1])

\* no significant line in (start, i) sits at column indent or to its left
InsideBlock(lines, start, i, indent) ==
    \A j \in (start + 1)..(i - 1) :
        Significant(lines, j) => IndentOf(lines[j + 1]) > indent

ChildKeyLines(lines, start, end, parentIndent, key) ==
    {i \in (start + 1)..(end - 1) :
        /\ IndentOf(lines[i + 1]) = parentIndent + 2
        /\ KeyTokenOf(lines[i + 1]) = key
        /\ InsideBlock(lines, start, i, parentIndent)}

\* C17: findChildKey returns the first line between start and end, both
\* excluded, that sits exactly two columns right of the parent, carries the
\* key, and is not preceded by a significant line at or left of the parent's
\* column; -1 when there is none.  Blank and comment lines never end the scan.
C17_FindChildKey ==
    tlOp.op = "findChildKey" =>
        tlOp.result = LeastOr(ChildKeyLines(currentTimeline, tlOp.start, tlOp.end,
                                            tlOp.indent, tlOp.key), -1)

\* a child found behind a comment that sits left of the parent's column
C17_Witness ==
    /\ tlOp.op = "findChildKey"
    /\ tlOp.result > tlOp.start + 1
    /\ tlOp.indent = 2
    /\ \E j \in (tlOp.start + 1)..(tlOp.result - 1) : currentTimeline[j + 1] = <<"#", SP, "c">>

BlockEnders(lines, start, indent, maxEnd) ==
    {i \in (start + 1)..(maxEnd - 1) :
        Significant(lines, i) /\ IndentOf(lines[i + 1]) <= indent}

\* C18: findBlockEnd returns the first significant line after start and
\* before maxEnd whose indentation is <= indent, maxEnd when there is none;
\* every significant line between start and the result is indented deeper.
C18_FindBlockEnd ==
    tlOp.op = "findBlockEnd" =>
        /\ tlOp.result = LeastOr(BlockEnders(currentTimeline, tlOp.start, tlOp.indent, tlOp.end),
                                 tlOp.end)
        /\ InsideBlock(currentTimeline, tlOp.start, tlOp.result, tlOp.indent)

\* a block that is ended by a line in its own column, after a deeper line
C18_Witness ==
    /\ tlOp.op = "findBlockEnd"
    /\ tlOp.indent = 2
    /\ tlOp.result = tlOp.start + 2
    /\ tlOp.result < tlOp.end
    /\ IndentOf(currentTimeline[tlOp.result + 1]) = 2
    /\ IndentOf(currentTimeline[tlOp.start + 2]) = 4

FoundSection == tlOp.op = "findPresetSection" /\ tlOp.result.found

\* no line of the span after its key line is indented deeper than the key
NoDeeperLine(lines, start, end, indent) ==
    \A j \in (start + 1)..(end - 1) :
        ~(Significant(lines, j) /\ IndentOf(lines[j + 1]) > indent)

\* the key line is the last line before maxEnd, or the line after it is a
\* significant line at or left of the key's column
NextLineEnds(lines, start, indent, maxEnd) ==
    \/ start + 1 >= maxEnd
    \/ Significant(lines, start + 1) /\ IndentOf(lines[start + 2]) <= indent

\* C19 as stated: a section whose span holds no line indented deeper than its
\* key line has end = start + 1, for findPresetSection and for findBlockEnd.
C19_NoDeeperLineSpanIsOneLine ==
    /\ (FoundSection /\ NoDeeperLine(currentTimeline, tlOp.result.start, tlOp.result.end,
                                     tlOp.result.indent))
           => tlOp.result.end = tlOp.result.start + 1
    /\ (tlOp.op = "findBlockEnd" /\ NoDeeperLine(currentTimeline, tlOp.start, tlOp.result,
                                                 tlOp.indent))
           => tlOp.result = tlOp.start + 1

\* C19, amended: a key line that is followed at once by a significant line at
\* or left of its column, or by the end of the lines, has a span with
\* end = start + 1.
C19_KeyLineAloneSpanIsOneLine ==
    /\ (FoundSection /\ NextLineEnds(currentTimeline, tlOp.result.start, tlOp.result.indent,
                                     Len(currentTimeline)))
           => tlOp.result.end = tlOp.result.start + 1
    /\ (tlOp.op = "findBlockEnd" /\ NextLineEnds(currentTimeline, tlOp.start, tlOp.indent,
                                                 tlOp.end))
           => tlOp.result = tlOp.start + 1

\* preset a with no body, followed by its sibling b
C19_Witness ==
    /\ FoundSection
    /\ tlOp.key = <<"a">>
    /\ tlOp.result.end = tlOp.result.start + 1
    /\ tlOp.result.end < Len(currentTimeline)
    /\ currentTimeline[tlOp.result.end + 1] = <<SP, SP, "b", ":", SP, "x">>

\* line i carries the key name as a direct child of a top-level 'presets:'
\* line p: every significant line between the two is indented at least as
\* deep as line i, which is itself indented
DirectlyUnderPresets(lines, i, name) ==
    /\ KeyTokenOf(lines[i + 1]) = name
    /\ IndentOf(lines[i + 1]) >= 1
    /\ \E p \in 0..(i - 1) :
          /\ StartsWithKey(lines[p + 1], "presets")
          /\ \A j \in (p + 1)..(i - 1) :
                Significant(lines, j) => IndentOf(lines[j + 1]) >= IndentOf(lines[i + 1])

\* the line the section of that name starts on, -1 when there is none
SectionLineOf(lines, name) ==
    IF name = CUSTOM
    THEN LeastOr({i \in 0..(Len(lines) - 1) : StartsWithKey(lines[i + 1], "custom")}, -1)
    ELSE LeastOr({i \in 0..(Len(lines) - 1) : DirectlyUnderPresets(lines, i, name)}, -1)

\* C20: findPresetSection returns the span of the top-level custom key for
\* the name 'custom', and for any other name the span of the key of that name
\* nested exactly one level under the top-level presets key; it returns null
\* when there is no such section and never selects a key nested deeper.
C20_FindPresetSection ==
    tlOp.op = "findPresetSection" =>
        /\ tlOp.result.found = (SectionLineOf(currentTimeline, tlOp.key) >= 0)
        /\ tlOp.result.found =>
              /\ tlOp.result.start = SectionLineOf(currentTimeline, tlOp.key)
              /\ tlOp.result.indent = IndentOf(currentTimeline[tlOp.result.start + 1])
              /\ tlOp.result.end =
                     LeastOr(BlockEnders(currentTimeline, tlOp.result.start,
                                         tlOp.result.indent, Len(currentTimeline)),
                             Len(currentTimeline))

----------------------------------------------------------------------------
(* Settings editor: updateYamlFromUI                                        *)

\* the tokens of the settings documents that /[a-z_]+/ matches in full
LowerWords ==
    {"rss", "platforms", "ai", "enabled", "freshness_filter", "max_age_days", "model",
     "true", "false"}

\* line.match(/^([a-z_]+):/): m[1], "" when the line does not match
ModuleKeyOf(line) ==
    IF Len(line) >= 2 /\ line[1] \in LowerWords /\ line[2] = ":" THEN line[1] ELSE ""

KeyAfter(line, lead) ==
    IF Len(line) >= lead + 2 /\ line[lead + 1] \in LowerWords /\ line[lead + 2] = ":"
    THEN line[lead + 1] ELSE ""

\* line.match(/^\s*([a-z_]+):\s*(.*)/i): m[1], "" when the line does not match
\* (the documents hold no key with an upper-case letter)
YamlKeyOf(line) == KeyAfter(line, LeadingSpaces(line))

\* the first loop of updateYamlFromUI from line i on, start being moduleStartLine so far
RECURSIVE ModuleScan(_, _, _, _)
ModuleScan(lines, i, start, modKey) ==
    IF i >= Len(lines) THEN [start |-> start, end |-> Len(lines)]
    ELSE IF ModuleKeyOf(lines[i + 1]) = modKey
    THEN ModuleScan(lines, i + 1, i, modKey)
    ELSE IF ModuleKeyOf(lines[i + 1]) # "" /\ start >= 0
    THEN [start |-> start, end |-> i]
    ELSE ModuleScan(lines, i + 1, start, modKey)

\* lines 1055-1068: every parent key of the path is the key of some line
\* between the module's first line and line i
ParentsSeen(lines, start, i, pathParts) ==
    \A j \in 1..(Len(pathParts) - 1) :
        \E k \in (start + 1)..(i - 1) : YamlKeyOf(lines[k + 1]) = pathParts[j]

\* the second loop of updateYamlFromUI from line i on: targetLine, -1 when none
RECURSIVE TargetLineFrom(_, _, _, _, _)
TargetLineFrom(lines, i, start, end, pathParts) ==
    IF i >= end THEN -1
    ELSE IF IsBlankOrComment(lines[i + 1])
    THEN TargetLineFrom(lines, i + 1, start, end, pathParts)
    ELSE IF /\ YamlKeyOf(lines[i + 1]) = pathParts[Len(pathParts)]
            /\ ParentsSeen(lines, start, i, pathParts)
    THEN i
    ELSE TargetLineFrom(lines, i + 1, start, end, pathParts)

\* newVal.replace(/"/g, '\\"')
RECURSIVE EscapeQuotes(_)
EscapeQuotes(s) ==
    IF s = <<>> THEN <<>>
    ELSE (IF Head(s) = "\"" THEN <<"\\", "\"">> ELSE <<Head(s)>>) \o EscapeQuotes(Tail(s))

\* formattedVal of updateYamlFromUI
FormatYamlValue(rest, newVal) ==
    IF newVal.t = "boolean" THEN (IF newVal.b THEN <<"true">> ELSE <<"false">>)
    ELSE IF newVal.t = "number" THEN NumberToString(newVal.n)
    ELSE IF \/ IsQuotedText(ValPartOf(rest))
            \/ Includes(newVal.s, ":")
            \/ Includes(newVal.s, "#")
            \/ Includes(newVal.s, "\"")
            \/ Includes(newVal.s, SP)
            \/ newVal.s = <<>>
    THEN DoubleQuoted(EscapeQuotes(newVal.s))
    ELSE newVal.s

\* `${prefix}${formattedVal}${comment}`, prefixLen being the length of match[1]
YamlLineWith(line, prefixLen, newVal) ==
    SubSeq(line, 1, prefixLen)
        \o FormatYamlValue(SubSeq(line, prefixLen + 1, Len(line)), newVal)
        \o CommentOf(SubSeq(line, prefixLen + 1, Len(line)))

\* the new text of lines[targetLine]: originalLine.match(/^(\s*[a-z_]+:\s*)(.*)$/i)
YamlPatchedLine(line, lead, newVal) ==
    YamlLineWith(line, lead + 2 + BlanksFrom(line, lead + 3), newVal)

\* parseFloat of the text of a number input; -1 stands for NaN
ParseFloat(text) ==
    IF Len(text) = 1 /\ \E d \in 0..9 : DigitToken(d) = text[1]
    THEN CHOOSE d \in 0..9 : DigitToken(d) = text[1]
    ELSE -1

\* lines 1003-1009: newVal of the control el
NewValOf(el) ==
    IF el.type = "checkbox" THEN BoolValue(el.checked)
    ELSE IF el.type = "number"
    THEN NumValue(IF ParseFloat(el.value) < 0 THEN 0 ELSE ParseFloat(el.value))
    ELSE StrValue(el.value)

YamlPatchedAt(lines, targetLine, newVal) ==
    IF targetLine < 0 THEN lines
    ELSE [lines EXCEPT ![targetLine + 1] =
             YamlPatchedLine(lines[targetLine + 1], LeadingSpaces(lines[targetLine + 1]), newVal)]

YamlPatchedIn(lines, span, pathParts, newVal) ==
    IF span.start < 0 THEN lines
    ELSE YamlPatchedAt(lines,
                       TargetLineFrom(lines, span.start + 1, span.start, span.end, pathParts),
                       newVal)

\* the lines updateYamlFromUI leaves in the editor; pathParts is path.split('.')
updateYamlFromUI(lines, modKey, pathParts, el) ==
    YamlPatchedIn(lines, ModuleScan(lines, 0, -1, modKey), pathParts, NewValOf(el))

----------------------------------------------------------------------------
(* Settings documents and calls the settings editor is exercised on         *)

MaxYamlEdits == 2

FreshnessFilter(withEnabled) ==
    <<KeyOnly("freshness_filter")>>
        \o Indented(2, (IF withEnabled THEN <<KeyValue("enabled", <<"true">>)>> ELSE <<>>)
                       \o <<KeyValue("max_age_days", <<"3">>) \o SomeComment>>)

OwnSwitch == <<KeyValue("enabled", <<"true">>)>>

\* the rss module: the freshness_filter block with or without its enabled switch
\* or missing, the module's own enabled switch before it, after it or missing
RssModules ==
    { <<KeyOnly("rss")>> \o Indented(2, body) :
        body \in UNION { {block, OwnSwitch \o block, block \o OwnSwitch} :
                           block \in { <<>>, FreshnessFilter(TRUE), FreshnessFilter(FALSE) } } }

PlatformsModule ==
    <<<<"#", SP, "sources">>, KeyOnly("platforms")>>
        \o Indented(2, <<KeyValue("enabled", <<"true">>)>>)
        \o <<<<>>>>

AiModule ==
    <<<<>>, KeyOnly("ai")>>
        \o Indented(2, <<KeyValue("model", QuotedWord("gpt")) \o SomeComment>>)
        \o <<<<>>>>

\* settings texts: the rss module between two others, or the others alone
SettingsDocs ==
    { PlatformsModule \o rss \o AiModule : rss \in RssModules }
    \cup { PlatformsModule \o AiModule }

Checkbox(checked) == [type |-> "checkbox", checked |-> checked, value |-> <<>>]
NumberInput(text) == [type |-> "number", checked |-> FALSE, value |-> text]
TextInput(text) == [type |-> "text", checked |-> FALSE, value |-> text]

YamlCall(modKey, path, el) == [modKey |-> modKey, path |-> path, el |-> el]

\* the calls the settings form makes: the switches and the number of the rss
\* module, the switch of the platforms module, the model name of the ai module
YamlCalls ==
    { YamlCall("rss", <<"enabled">>, Checkbox(FALSE)),
      YamlCall("rss", <<"freshness_filter", "enabled">>, Checkbox(FALSE)),
      YamlCall("rss", <<"freshness_filter", "max_age_days">>, NumberInput(<<"7">>)),
      YamlCall("rss", <<"freshness_filter", "max_age_days">>, NumberInput(<<>>)),
      YamlCall("platforms", <<"enabled">>, Checkbox(FALSE)),
      YamlCall("ai", <<"model">>, TextInput(<<"say", "\"", "hi", "\"">>)),
      YamlCall("ai", <<"model">>, TextInput(<<>>)) }

YamlOpLoad ==
    [op |-> "load", modKey |-> "", path |-> <<>>, el |-> Checkbox(FALSE), before |-> <<>>,
     n |-> 0]

YamlInit ==
    /\ currentYaml \in SettingsDocs
    /\ yamlOp = YamlOpLoad
    /\ FreqIdle /\ PatchIdle /\ TlIdle /\ LoadIdle

UpdateYamlFromUIStep ==
    /\ yamlOp.n < MaxYamlEdits
    /\ \E c \in YamlCalls :
        /\ currentYaml' = updateYamlFromUI(currentYaml, c.modKey, c.path, c.el)
        /\ yamlOp' = [op |-> "updateYamlFromUI", modKey |-> c.modKey, path |-> c.path,
                      el |-> c.el, before |-> currentYaml, n |-> yamlOp.n + 1]
        /\ UNCHANGED <<freqVars, patchVars, tlVars, loadVars>>

YamlNext == UpdateYamlFromUIStep

SpecYaml == YamlInit /\ [][YamlNext]_vars

----------------------------------------------------------------------------
(* Properties of the settings editor                                        *)

\* the line the path leads to in the loaded settings: the module at the top
\* level, then each path key directly under the line of the one before; -1 when
\* some key of the path is missing
RECURSIVE PathLineFrom(_, _, _, _)
PathLineFrom(lines, ind, i, pathParts) ==
    IF i < 0 \/ pathParts = <<>> THEN i
    ELSE PathLineFrom(lines, ind, ChildEntryIn(lines, ind, i, <<Head(pathParts)>>),
                      Tail(pathParts))

PathLine(lines, modKey, pathParts) ==
    PathLineFrom(lines, Indents(lines), TopEntryIn(lines, Indents(lines), <<modKey>>), pathParts)

\* C7: when the module has no line for the path (the last key directly under the
\* parent keys the path names), updateYamlFromUI leaves the settings text as it
\* was; a key of the same name under another parent is not touched.
C7_MissingPathIsNoOp ==
    (yamlOp.op = "updateYamlFromUI" /\ PathLine(yamlOp.before, yamlOp.modKey, yamlOp.path) < 0)
        => currentYaml = yamlOp.before

----------------------------------------------------------------------------
(* Remote load and file drop: confirmLoadConfig and handleFileDrop           *)

\* number of confirmLoadConfig calls of a behaviour
MaxLoads == 2

\* number of files dropped in a behaviour
MaxDrops == 1

CONFIG == "config"
FREQUENCY == "frequency"
TIMELINE == "timeline"

\* the order in which confirmLoadConfig pushes its fetches
TYPES == <<CONFIG, FREQUENCY, TIMELINE>>

\* the promises of the checked boxes, in the order of lines 579-581
PromisesOf(checked) == SelectSeq(TYPES, LAMBDA t : t \in checked)

\* jsyaml.load(text) throws: a flow sequence that is not closed, or a double
\* quote that is not closed, on some line
UnclosedOn(line) ==
    \/ Includes(line, "[") /\ ~Includes(line, "]")
    \/ Cardinality({k \in 1..Len(line) : line[k] = "\""}) % 2 = 1

jsyamlLoadThrows(text) == \E k \in 1..Len(text) : UnclosedOn(text[k])

\* the text the remote file of the type has when request id reads it
RemoteText(type, id) ==
    IF type = FREQUENCY THEN << <<"word" \o DigitToken(id)>> >>
    ELSE << <<type, ":", SP, DigitToken(id)>> >>

\* a text that is not YAML
BrokenYaml == << <<"app", ":", SP, "[", "x">> >>

\* what a response can carry: the remote text, or for the YAML files a broken one
ResponseTexts(type, id) ==
    IF type = FREQUENCY THEN {RemoteText(type, id)} ELSE {RemoteText(type, id), BrokenYaml}

\* the three in-memory texts
Texts == [config |-> currentYaml, frequency |-> currentFrequency, timeline |-> currentTimeline]

\* lines 593-619: the text put into its editor and in-memory copy
Supplied(type, text) ==
    /\ currentYaml' = IF type = CONFIG THEN text ELSE currentYaml
    /\ currentTimeline' = IF type = TIMELINE THEN text ELSE currentTimeline
    /\ currentFrequency' = IF type = FREQUENCY THEN text ELSE currentFrequency
    /\ currentFrequencyData' =
          IF type = FREQUENCY THEN <<parseFrequencyText(text)>> ELSE currentFrequencyData

TextsKept == UNCHANGED <<currentYaml, currentTimeline, currentFrequency, currentFrequencyData>>

OpsKept == UNCHANGED <<freqOp, patchVars, tlOp, yamlOp>>

\* lines 564-583: the call up to its await; with no box checked it warns and returns
ConfirmLoadConfigStep ==
    /\ Len(loads) < MaxLoads
    /\ \E checked \in SUBSET {CONFIG, FREQUENCY, TIMELINE} :
          IF checked = {}
          THEN /\ loadOp' = [op |-> "confirmLoadConfig", toasts |-> <<"warning">>, drops |-> loadOp.drops]
               /\ UNCHANGED loads
          ELSE /\ loads' = Append(loads, [promises |-> PromisesOf(checked), stage |-> "fetching",
                                          at |-> 1, start |-> Texts, delivered |-> {}])
               /\ loadOp' = [op |-> "confirmLoadConfig", toasts |-> <<"info">>,
                             drops |-> loadOp.drops]
    /\ TextsKept /\ OpsKept

\* line 583: Promise.all settles; it rejects when a fetch met a network error, and
\* the catch of lines 631-634 reports it
PromiseAllSettledStep ==
    \E id \in 1..Len(loads) :
        /\ loads[id].stage = "fetching"
        /\ \E rejected \in BOOLEAN :
              IF rejected
              THEN /\ loads' = [loads EXCEPT ![id].stage = "done"]
                   /\ loadOp' = [op |-> "failed", id |-> id, toasts |-> <<"error">>,
                                 start |-> loads[id].start, drops |-> loadOp.drops]
              ELSE /\ loads' = [loads EXCEPT ![id].stage = "applying"]
                   /\ loadOp' = [op |-> "settled", id |-> id, toasts |-> <<>>,
                                 drops |-> loadOp.drops]
        /\ TextsKept /\ OpsKept

\* lines 621-629 when the iteration was the last one
Finished(load, toasts) ==
    IF load.at = Len(load.promises) THEN [stage |-> "done", toasts |-> toasts \o <<"success">>]
    ELSE [stage |-> "applying", toasts |-> toasts]

\* one iteration of the loop of lines 585-619, up to the next await: a response
\* that is not OK throws into the catch; a YAML text that does not load is
\* reported and skipped; any other text is put into its document
NextResultStep ==
    \E id \in 1..Len(loads) :
        LET load == loads[id]
            type == load.promises[load.at]
        IN  /\ load.stage = "applying"
            /\ \/ /\ loads' = [loads EXCEPT ![id].stage = "done"]
                  /\ loadOp' = [op |-> "failed", id |-> id, toasts |-> <<"error">>,
                                start |-> load.start, drops |-> loadOp.drops]
                  /\ TextsKept
               \/ \E text \in ResponseTexts(type, id) :
                     IF type # FREQUENCY /\ jsyamlLoadThrows(text)
                     THEN /\ loads' = [loads EXCEPT ![id].stage = Finished(load, <<>>).stage,
                                                    ![id].at = load.at + 1]
                          /\ loadOp' = [op |-> "yamlError", id |-> id, type |-> type,
                                        before |-> Texts, drops |-> loadOp.drops,
                                        toasts |-> Finished(load, <<"error">>).toasts]
                          /\ TextsKept
                     ELSE /\ loads' = [loads EXCEPT ![id].stage = Finished(load, <<>>).stage,
                                                    ![id].at = load.at + 1,
                                                    ![id].delivered = load.delivered \cup {type}]
                          /\ loadOp' = [op |-> "applied", id |-> id, type |-> type,
                                        drops |-> loadOp.drops,
                                        toasts |-> Finished(load, <<>>).toasts]
                          /\ Supplied(type, text)
            /\ OpsKept

LoadInit == FreqIdle /\ PatchIdle /\ TlIdle /\ YamlIdle /\ LoadIdle

LoadNext ==
    \/ ConfirmLoadConfigStep
    \/ PromiseAllSettledStep
    \/ NextResultStep

SpecLoad == LoadInit /\ [][LoadNext]_vars

\* files dropped on an editor: their name and content
DroppedFiles ==
    { [name |-> n, content |-> c] :
        n \in { <<"new", ".", "yaml">>, <<"new", ".", "png">> },
        c \in { << <<"dropped", ":", SP, "1">> >>, BrokenYaml } }

\* the extensions accepted for the editor of the type (lines 314-318)
ValidExtensions(type) ==
    IF type = TIMELINE THEN {"yaml", "yml"} ELSE {"yaml", "yml", "txt"}

\* validExtensions.some(ext => fileName.endsWith(ext))
IsValidName(type, name) ==
    Len(name) >= 2 /\ name[Len(name) - 1] = "." /\ name[Len(name)] \in ValidExtensions(type)

\* handleFileDrop and the onload callback of its reader: a file with another
\* extension is refused; a YAML text that does not load is reported and put into
\* the editor all the same (lines 341-345 and 354-357)
HandleFileDropStep ==
    /\ loadOp.drops < MaxDrops
    /\ \E type \in {CONFIG, FREQUENCY, TIMELINE} : \E file \in DroppedFiles :
          IF ~IsValidName(type, file.name)
          THEN /\ loadOp' = [op |-> "drop", type |-> type, toasts |-> <<"error">>,
                             refused |-> TRUE, before |-> Texts, drops |-> loadOp.drops + 1]
               /\ TextsKept
          ELSE /\ loadOp' = [op |-> IF type # FREQUENCY /\ jsyamlLoadThrows(file.content)
                                    THEN "yamlError" ELSE "drop",
                             type |-> type, refused |-> FALSE, before |-> Texts,
                             drops |-> loadOp.drops + 1,
                             toasts |-> IF type # FREQUENCY /\ jsyamlLoadThrows(file.content)
                                        THEN <<"error">> ELSE <<"success">>]
               /\ Supplied(type, file.content)
    /\ UNCHANGED loads
    /\ OpsKept

SupplyNext ==
    \/ ConfirmLoadConfigStep
    \/ PromiseAllSettledStep
    \/ NextResultStep
    \/ HandleFileDropStep

SpecSupply == LoadInit /\ [][SupplyNext]_vars

----------------------------------------------------------------------------
(* Properties of the loader                                                 *)

\* C23: a remote load that fails for one of its files (a network error or a
\* response that is not OK) shows an error and leaves the three in-memory texts
\* as they were when the load started.
C23_FailedLoadMutatesNothing ==
    (loadOp.op = "failed" /\ Len(loads) = 1)
        => /\ loadOp.toasts = <<"error">>
           /\ Texts = loadOp.start

\* C24: a settings or schedule text, dropped or fetched, that fails the YAML
\* read is reported as an error and the previous in-memory text of that
\* document is retained.
C24_BrokenYamlKeepsPreviousText ==
    loadOp.op = "yamlError"
        => /\ Includes(loadOp.toasts, "error")
           /\ Texts[loadOp.type] = loadOp.before[loadOp.type]

\* the requests that were given a text for the type and put it into the document
DeliveredTo(type) == {id \in 1..Len(loads) : type \in loads[id].delivered}

AllDone == \A id \in 1..Len(loads) : loads[id].stage = "done"

\* C25: once every remote load has completed, each document that was loaded
\* holds the text delivered to the latest request that loaded it, whatever the
\* order in which the responses arrived.
C25_LatestRequestWins ==
    AllDone
        => \A type \in {CONFIG, FREQUENCY, TIMELINE} :
              DeliveredTo(type) # {}
                 => Texts[type] = RemoteText(type, CHOOSE id \in DeliveredTo(type) :
                                                       \A o \in DeliveredTo(type) : o <= id)

----------------------------------------------------------------------------
(* Preset selection, creation and deletion                                  *)

MORNING_EVENING == <<"morning_evening">>

PROTECTED_PRESETS ==
    { <<"morning_evening">>, <<"always_on">>, <<"office_hours">>, <<"night_owl">> }

\* doc?.schedule?.preset || 'morning_evening' with the preset entry on line j
ActivePresetAt(lines, j) ==
    IF j < 0 \/ ScalarRead(RestOfLine(lines[j + 1])) = <<>> THEN MORNING_EVENING
    ELSE ScalarRead(RestOfLine(lines[j + 1]))

getActivePresetIn(lines, ind) ==
    ActivePresetAt(lines, ChildEntryIn(lines, ind, TopEntryIn(lines, ind, <<"schedule">>),
                                       <<"preset">>))

\* getActivePreset on the settings text
getActivePreset(lines) == getActivePresetIn(lines, Indents(lines))

\* /^schedule:\s*$/.test(line.trimEnd()) || /^schedule:\s*#/.test(line)
IsScheduleHeader(line) ==
    /\ StartsWithKey(line, "schedule")
    /\ \/ 3 + BlanksFrom(line, 3) > Len(line)
       \/ line[3 + BlanksFrom(line, 3)] = "#"

\* /^\s+preset:\s*/.test(line)
IsPresetLine(line) ==
    /\ LeadingSpaces(line) >= 1
    /\ Len(line) >= LeadingSpaces(line) + 2
    /\ line[LeadingSpaces(line) + 1] = "preset"
    /\ line[LeadingSpaces(line) + 2] = ":"

\* /^\S/.test(line) && !line.startsWith('#')
IsTopLevelText(line) == line # <<>> /\ line[1] # SP /\ line[1] # "#"

\* the scan of lines 4476-4490 from index i: presetLineIdx
RECURSIVE PresetLineFrom(_, _, _)
PresetLineFrom(lines, i, inSchedule) ==
    IF i >= Len(lines) THEN -1
    ELSE IF IsScheduleHeader(lines[i + 1]) THEN PresetLineFrom(lines, i + 1, TRUE)
    ELSE IF inSchedule /\ ~IsTopLevelText(lines[i + 1]) /\ IsPresetLine(lines[i + 1]) THEN i
    ELSE PresetLineFrom(lines, i + 1, inSchedule /\ ~IsTopLevelText(lines[i + 1]))

\* match[1] of original.match(/^(\s*preset:\s*)(.*)$/)
PresetPrefix(line) ==
    SubSeq(line, 1, LeadingSpaces(line) + 2 + BlanksFrom(line, LeadingSpaces(line) + 3))

\* `${prefix}"${name}"${comment}`
PresetLineWith(line, name) ==
    PresetPrefix(line)
        \o DoubleQuoted(name)
        \o CommentOf(SubSeq(line, Len(PresetPrefix(line)) + 1, Len(line)))

PresetWrittenAt(lines, presetLineIdx, name) ==
    IF presetLineIdx < 0 THEN lines
    ELSE [lines EXCEPT ![presetLineIdx + 1] = PresetLineWith(lines[presetLineIdx + 1], name)]

\* the settings text selectTimelinePreset leaves
selectTimelinePreset(lines, name) == PresetWrittenAt(lines, PresetLineFrom(lines, 0, FALSE), name)

\* PROTECTED_PRESETS without morning_evening
IsProtectedButMorning(presetName) == presetName \in PROTECTED_PRESETS \ {MORNING_EVENING}

\* PROTECTED_PRESETS.includes(presetName)
IsProtected(presetName) == presetName \in PROTECTED_PRESETS

PresetOutcome(did, timeline, settings) ==
    [did |-> did, timeline |-> timeline, settings |-> settings]

\* lines 4932-4943: the section removed, then the switch when it was the active one
SectionDeleted(timeline, settings, sectionInfo, presetName) ==
    IF ~sectionInfo.found THEN PresetOutcome("return", timeline, settings)
    ELSE PresetOutcome("delete",
                       RemoveAt(timeline, sectionInfo.start, sectionInfo.end - sectionInfo.start),
                       IF getActivePreset(settings) = presetName
                       THEN selectTimelinePreset(settings, MORNING_EVENING)
                       ELSE settings)

\* the outcome of deleteTlPreset, confirmed being the answer to the confirm dialog
deleteTlPreset(timeline, settings, presetName, confirmed) ==
    IF IsProtected(presetName) THEN PresetOutcome("warning", timeline, settings)
    ELSE IF presetName = CUSTOM THEN PresetOutcome("warning", timeline, settings)
    ELSE IF ~confirmed THEN PresetOutcome("cancel", timeline, settings)
    ELSE SectionDeleted(timeline, settings, findPresetSection(timeline, presetName),
                        presetName)

\* buildEmptyPresetBlock(key, name, desc).split('\n')
buildEmptyPresetBlock(key, name, desc) ==
    <<Spaces(2) \o key \o <<":">>,
      Spaces(4) \o <<"name", ":", SP>> \o DoubleQuoted(name),
      Spaces(4) \o <<"description", ":", SP>> \o DoubleQuoted(desc),
      Spaces(4) \o <<"default", ":">>,
      Spaces(6) \o <<"collect", ":", SP, "true">>,
      Spaces(6) \o <<"analyze", ":", SP, "false">>,
      Spaces(6) \o <<"ai_mode", ":", SP, "follow_report">>,
      Spaces(6) \o <<"push", ":", SP, "false">>,
      Spaces(6) \o <<"report_mode", ":", SP, "current">>,
      Spaces(6) \o <<"once", ":">>,
      Spaces(8) \o <<"analyze", ":", SP, "false">>,
      Spaces(8) \o <<"push", ":", SP, "false">>,
      Spaces(4) \o <<"periods", ":", SP, "{", "}">>,
      Spaces(4) \o <<"day_plans", ":">>,
      Spaces(6) \o <<"all_day", ":">>,
      Spaces(8) \o <<"periods", ":", SP, "[", "]">>,
      Spaces(4) \o <<"week_map", ":">>,
      Spaces(6) \o <<"1", ":", SP, "all_day">>,
      Spaces(6) \o <<"2", ":", SP, "all_day">>,
      Spaces(6) \o <<"3", ":", SP, "all_day">>,
      Spaces(6) \o <<"4", ":", SP, "all_day">>,
      Spaces(6) \o <<"5", ":", SP, "all_day">>,
      Spaces(6) \o <<"6", ":", SP, "all_day">>,
      Spaces(6) \o <<"7", ":", SP, "all_day">>,
      <<>>>>

\* first line matching /^presets:\s*/, -1 when there is none
RECURSIVE FindPresetsFrom(_, _)
FindPresetsFrom(lines, i) ==
    IF i >= Len(lines) THEN -1
    ELSE IF StartsWithKey(lines[i + 1], "presets") THEN i
    ELSE FindPresetsFrom(lines, i + 1)

\* presetsEnd: the first line after the presets key that starts a top-level entry
RECURSIVE PresetsEndFrom(_, _)
PresetsEndFrom(lines, i) ==
    IF i >= Len(lines) THEN Len(lines)
    ELSE IF IsTopLevelText(lines[i + 1]) /\ Trim(lines[i + 1]) # <<>> THEN i
    ELSE PresetsEndFrom(lines, i + 1)

\* lines 4647-4665
BlockInserted(lines, presetsStart, blockLines) ==
    IF presetsStart < 0 THEN << <<"presets", ":">> >> \o blockLines \o lines
    ELSE InsertAt(lines, PresetsEndFrom(lines, presetsStart + 1), blockLines)

\* data?.presets?.[key] is truthy
HasPresetIn(lines, ind, key) ==
    \E j \in ChildLinesIn(ind, TopEntryIn(lines, ind, <<"presets">>)) :
        KeyTokenOf(lines[j + 1]) = key /\ HasValueIn(lines, ind, j)

HasPreset(lines, key) == HasPresetIn(lines, Indents(lines), key)

\* the outcome of confirmTlNewPreset with the blank template, key, name and desc
\* being the trimmed fields of the dialog
confirmTlNewPreset(timeline, settings, key, name, desc) ==
    IF key = <<>> THEN PresetOutcome("error", timeline, settings)
    ELSE IF ~IsKeyName(key) THEN PresetOutcome("error", timeline, settings)
    ELSE IF name = <<>> THEN PresetOutcome("error", timeline, settings)
    ELSE IF HasPreset(timeline, key) THEN PresetOutcome("error", timeline, settings)
    ELSE IF key = CUSTOM THEN PresetOutcome("error", timeline, settings)
    ELSE PresetOutcome("create",
                       BlockInserted(timeline, FindPresetsFrom(timeline, 0),
                                     buildEmptyPresetBlock(key, name, desc)),
                       selectTimelinePreset(settings, key))

----------------------------------------------------------------------------
(* Documents and calls the preset handlers are exercised on                 *)

\* number of successive calls on a pair of documents
MaxPresetEdits == 2

NamedPreset(key, title) ==
    <<KeyOnly(key)>> \o Indented(2, <<KeyValue("name", QuotedWord(title))>>)

\* morning_evening, plain or with a day plan that is called like the preset work
MorningEvenings ==
    { NamedPreset("morning_evening", "ME"),
      NamedPreset("morning_evening", "ME")
          \o Indented(2, <<KeyOnly("day_plans")>>
                           \o Indented(2, <<KeyOnly("work")>>
                                            \o Indented(2, <<KeyValue("periods",
                                                                      <<"[", "]">>)>>))) }

OtherBuiltIns ==
    NamedPreset("always_on", "AO") \o NamedPreset("office_hours", "OH")
        \o NamedPreset("night_owl", "NO")

WorkPreset == NamedPreset("work", "W")

CustomPreset == <<KeyOnly("custom")>> \o Indented(2, <<KeyValue("name", QuotedWord("C"))>>)

\* the built-in presets and custom, with the preset work among the built-in ones,
\* after them, or with no further preset
PresetDocs ==
    { <<KeyOnly("presets")>> \o Indented(2, body) \o <<<<>>>> \o CustomPreset \o <<<<>>>> :
        body \in UNION { { me \o WorkPreset \o OtherBuiltIns,
                           me \o OtherBuiltIns \o WorkPreset,
                           me \o OtherBuiltIns } : me \in MorningEvenings } }

\* the schedule section of the settings: the preset quoted with a comment, bare
\* under a commented header at the end of the text, or not written
ScheduleDocs(presetName) ==
    { <<KeyOnly("app")>> \o Indented(2, <<KeyValue("preset", <<"zz">>)>>)
          \o <<KeyOnly("schedule")>>
          \o Indented(2, <<KeyValue("enabled", <<"true">>),
                           KeyValue("preset", DoubleQuoted(presetName)) \o SomeComment>>)
          \o <<<<>>, KeyOnly("ai")>> \o Indented(2, <<KeyValue("preset", <<"zz">>)>>),
      <<KeyOnly("schedule") \o SomeComment>>
          \o Indented(2, <<KeyValue("preset", presetName)>>),
      <<KeyOnly("schedule")>> \o Indented(2, <<KeyValue("enabled", <<"true">>)>>) \o <<<<>>>> }

SettingsWithPreset == UNION { ScheduleDocs(p) : p \in { <<"work">>, <<"night_owl">> } }

\* whether the schedule text holds the preset: getPresetConfig is not null
PresetPresent(timeline, presetName) == getPresetConfig(timeline, presetName) >= 0

\* the presets the panel renders: the keys under presets, and custom
RenderedPresets(timeline) ==
    {KeyTokenOf(timeline[j + 1]) :
        j \in ChildLinesIn(Indents(timeline), TopEntryIn(timeline, Indents(timeline),
                                                         <<"presets">>))}
        \cup {CUSTOM}

\* the key field of the dialog: a new key, the key of the preset work, custom, a
\* key the pattern rejects, and an empty field
NewPresetKeys == { <<"late">>, <<"work">>, CUSTOM, <<"2", "x">>, <<>> }

\* the name field of the dialog
NewPresetNames == { <<"Late">>, <<>> }

PresetOpOf(op, presetName, confirmed, out) ==
    [op |-> op, presetName |-> presetName, confirmed |-> confirmed,
     before |-> currentTimeline, settingsBefore |-> currentYaml, did |-> out.did,
     n |-> tlOp.n + 1]

\* documents in which schedule.preset names a preset the schedule text holds
PresetInit ==
    /\ currentTimeline \in PresetDocs
    /\ currentYaml \in SettingsWithPreset
    /\ PresetPresent(currentTimeline, getActivePreset(currentYaml))
    /\ tlOp = TlOpLoad
    /\ yamlOp = [op |-> "load"]
    /\ FreqIdle /\ PatchIdle /\ LoadIdle

SelectTimelinePresetStep ==
    /\ tlOp.n < MaxPresetEdits
    /\ \E name \in RenderedPresets(currentTimeline) :
        /\ currentYaml' = selectTimelinePreset(currentYaml, name)
        /\ tlOp' = PresetOpOf("selectTimelinePreset", name, FALSE, [did |-> "select"])
        /\ UNCHANGED <<currentTimeline, yamlOp, freqVars, patchVars, loadVars>>

DeleteTlPresetStep ==
    /\ tlOp.n < MaxPresetEdits
    /\ \E presetName \in RenderedPresets(currentTimeline) : \E confirmed \in BOOLEAN :
        LET out == deleteTlPreset(currentTimeline, currentYaml, presetName, confirmed)
        IN  /\ currentTimeline' = out.timeline
            /\ currentYaml' = out.settings
            /\ tlOp' = PresetOpOf("deleteTlPreset", presetName, confirmed, out)
            /\ UNCHANGED <<yamlOp, freqVars, patchVars, loadVars>>

ConfirmTlNewPresetStep ==
    /\ tlOp.n < MaxPresetEdits
    /\ \E key \in NewPresetKeys : \E name \in NewPresetNames :
        LET out == confirmTlNewPreset(currentTimeline, currentYaml, key, name, <<>>)
        IN  /\ currentTimeline' = out.timeline
            /\ currentYaml' = out.settings
            /\ tlOp' = PresetOpOf("confirmTlNewPreset", key, FALSE, out)
            /\ UNCHANGED <<yamlOp, freqVars, patchVars, loadVars>>

PresetNext ==
    \/ SelectTimelinePresetStep
    \/ DeleteTlPresetStep
    \/ ConfirmTlNewPresetStep

SpecPreset == PresetInit /\ [][PresetNext]_vars

----------------------------------------------------------------------------
(* Properties of the preset handlers                                        *)

----------------------------------------------------------------------------
(* Rule texts with several related runs                                     *)

\* number of lines of the groups section
MaxRunBody == 4

RunBodyLines ==
    { <<>>,
      <<"#", SP, "c1">>,
      <<"[", "A", "]">>,
      <<"foo">>,
      <<"a", SP, "=", ">", SP, "b">> }

RunBodies == UNION {[1..n -> RunBodyLines] : n \in 0..MaxRunBody}

RunInit ==
    /\ currentFrequency \in {GroupsOnlyHeader \o b : b \in RunBodies}
    /\ currentFrequencyData = <<>>
    /\ freqOp = [op |-> "load", index |-> 0, before |-> <<>>, dropped |-> FALSE, n |-> 0]
    /\ PatchIdle /\ TlIdle /\ YamlIdle /\ LoadIdle

\* the editor's input listener on the longer rule texts
SpecParseRuns == RunInit /\ [][ParseNext]_vars

\* the rule of each type on the size of a group
WellFormedGroup(g) ==
    /\ g.type = "plain" => Len(g.keywords) >= 1
    /\ g.type = "alias" => Len(g.items) = 1
    /\ g.type = "alias-group" => Len(g.items) >= 2

\* the flagged group at position k stands in a run of relatedGroupTotal flagged
\* groups that starts relatedGroupIndex positions before it and carries the
\* indices 0, 1, ... in order
InRelatedRun(groups, k, first, total) ==
    /\ total >= 2
    /\ first >= 1
    /\ first <= k
    /\ first + total - 1 <= Len(groups)
    /\ k <= first + total - 1
    /\ \A m \in 0..(total - 1) :
          /\ groups[first + m].isRelatedGroup
          /\ groups[first + m].relatedGroupTotal = total
          /\ groups[first + m].relatedGroupIndex = m

WellFormedGroups(groups) ==
    \A k \in 1..Len(groups) :
        /\ WellFormedGroup(groups[k])
        /\ groups[k].isRelatedGroup =>
              InRelatedRun(groups, k, k - groups[k].relatedGroupIndex,
                           groups[k].relatedGroupTotal)

\* C30: every group parseFrequencyText returns is well-formed: a plain group has
\* at least one keyword, an alias group exactly one item, an alias-group at least
\* two items, and the groups flagged isRelatedGroup form contiguous runs whose
\* length is their relatedGroupTotal (at least 2) and whose members carry
\* relatedGroupIndex 0, 1, ..., relatedGroupTotal - 1 in order.
C30_GroupsWellFormed == Synced => WellFormedGroups(currentFrequencyData[1].wordGroups)

\* two related runs stand next to each other in the output: plain, alias, and a
\* named group with a further alias
C30_Witness ==
    /\ Synced
    /\ Len(currentFrequencyData[1].wordGroups) = 4
    /\ \A k \in 1..4 : currentFrequencyData[1].wordGroups[k].relatedGroupTotal = 2
    /\ currentFrequencyData[1].wordGroups[3].type = "group-name"
    /\ currentFrequencyData[1].wordGroups[3].relatedGroupIndex = 0

====
